---- MODULE Spec2Model ----
(***************************************************************************)
(* Verification model of the t-nav-sim route simulator.                    *)
(*                                                                         *)
(*   Spec         - the Route class (types/map.ts) driven method by method *)
(*   SpecApp      - App.vue with the RouteControlPanel buttons             *)
(*   SpecScenario - saving a route to a scenario file and loading it back  *)
(*   SpecSession  - the back end's sessions, build jobs and runs           *)
(*                                                                         *)
(* Array indices are 0-based as in the source; At0(s, i) reads s[i].       *)
(***************************************************************************)
EXTENDS Integers, Sequences, FiniteSets, TLC

VARIABLES
    route,        \* App.vue `route` ref: the Route instance being displayed
    simState,     \* App.vue `simState` ref
    mode,         \* App.vue `mode` ref
    isMapReady,   \* App.vue `isMapReady` ref
    pendingRoute, \* App.vue `pendingRoute`: << >> is null, <<r>> a queued Route
    savedDoc,     \* the scenario file written by saveRoute: << >> when none
    savedFrom,    \* what the route held when savedDoc was built
    showClearConfirm, \* RouteControlPanel.vue `showClearConfirm` ref
    last,         \* the scenario file operation that produced the state, if one did
    jobs,         \* back end: per session, the status of each Build Job
    runState,     \* back end: per session, RunState.state
    activeRange,  \* back end: per session, RunState.active_range
    sdrAlive,     \* back end: per session, its run's SDR subprocess is alive
    deviceHolder, \* back end: the session holding the device lock, or "none"
    resp,         \* back end: the request or event handled last, its outcome
    mounted,      \* live App: the component is mounted
    ws,           \* live App: `ws` is "null" or refers to a "socket"
    sock,         \* the WebSocket: "none", "open", "closing" (close event due), "closed"
    timer,        \* a setTimeout(connectWs, 1000) is pending
    opened,       \* WebSocket connections opened so far
    beState,      \* back end of the live App: the simulation state
    beRoute,      \* back end of the live App: << >> or <<waypoints>> of the active route
    beRun,        \* back end of the live App: number of the latest run started
    inbox,        \* state messages sent on the WebSocket and not yet handled
    call,         \* the runSim / runSimFromSegment call in progress
    stopCall,     \* the stopSim call in progress
    endSeenRun,   \* the latest run whose end report onmessage has handled
    statusFetch,  \* fetchSimState in progress
    routeFetch,   \* loadRouteFromBackend in progress
    syncTimer,    \* `syncTimeout` is pending
    bgPut,        \* the PUT /route of a debounced sync in flight: << >> or <<body>>
    mapValue,     \* MapView `map.value` is a map instance (TRUE) or null
    pool,         \* a useMapObjectPool instance, with the map objects it made
    lastSegmentCount,    \* useRouteRenderer
    lastWaypointCount,   \* useRouteRenderer
    lastRouteRenderTime, \* useRouteRenderer, in ms
    ticks,        \* the clock: Date.now() advances by steps of 50 ms
    dragState,    \* useMapEditor `dragState`
    poolOp,       \* the pool operation called last: which, on what, on a live map
    dragOp,       \* the drag operation called last, and what it met
    behavior,     \* the map's H.mapevents.Behavior: "null", "enabled" or "disabled"
    lockHist      \* since the last startSimulation: where the waypoints that
                  \* bounded its range are now, and whether one was lost

sessionVars == <<jobs, runState, activeRange, sdrAlive, deviceHolder, resp>>
frontVars == <<route, simState, mode, isMapReady, pendingRoute, savedDoc, savedFrom,
               showClearConfirm, last>>
connVars == <<mounted, ws, sock, timer, opened>>
backendVars == <<beState, beRoute, beRun>>
fetchVars == <<statusFetch, routeFetch>>
syncVars == <<syncTimer, bgPut>>
liveVars == <<connVars, backendVars, inbox, call, stopCall, endSeenRun, fetchVars,
              syncVars>>
mapVars == <<mapValue, pool, lastSegmentCount, lastWaypointCount, lastRouteRenderTime,
             ticks, dragState, poolOp, dragOp, behavior, lockHist>>
backVars == <<sessionVars, liveVars, mapVars>>
clientVars == <<frontVars, liveVars, mapVars>>
vars == <<frontVars, sessionVars, liveVars, mapVars>>
appVars == <<simState, mode, isMapReady, pendingRoute, savedDoc, savedFrom,
             showClearConfirm, backVars>>

----------------------------------------------------------------------------
(* Bounds *)

MaxPoints == 3          \* addPoint / splitSegment stop growing the route here
MaxIdx == 3             \* waypoint / segment index arguments: -1 .. MaxIdx
MaxStart == 1           \* startSimulation start argument: 0 .. MaxStart
MaxEnd == 2             \* startSimulation end argument: null or 0 .. MaxEnd

(* Map positions the user can click or drag to.  Coordinates are integers  *)
(* in half units so that the midpoint splitSegment computes stays exact.   *)
Positions == { [lat |-> 0, lon |-> 2], [lat |-> 2, lon |-> 0] }

MaxJobs == 2            \* Build Jobs created, all sessions together
BuiltSegments == 2      \* segments of the trajectory a Build Job produces

Sessions == { "s1", "s2" }

IdxArgs == -1 .. MaxIdx
StartArgs == 0 .. MaxStart
EndArgs == { <<>> } \cup { <<e>> : e \in 0 .. MaxEnd }   \* <<>> is null

----------------------------------------------------------------------------
(* enums.ts *)

SelectionType == [POINT |-> "point", SEGMENT |-> "segment"]
SegmentState == [PENDING |-> "pending", ACTIVE |-> "active", DONE |-> "done"]
NullSelection == "null"

----------------------------------------------------------------------------
(* types/map.ts : RoutePoint, RouteSegment, Route *)

At0(s, i) == s[i + 1]

RoutePoint(lat, lon) == [lat |-> lat, lon |-> lon, isSelected |-> FALSE]

RouteSegment(from, to) ==
    [from |-> from, to |-> to, isSelected |-> FALSE, state |-> SegmentState.PENDING]

NoRange == [active |-> FALSE, start |-> 0, end |-> 0]
Range(start, end) == [active |-> TRUE, start |-> start, end |-> end]

\* Of the nine params only the cruise speed is kept (the form edits each
\* the same way)
createDefaultMotionProfile ==
    [type |-> "simple", params |-> [cruise_speed_kmh |-> 20]]

NewRoute ==
    [ routeId |-> "Untitled Route",
      points |-> << >>,
      segments |-> << >>,
      simulatingSegmentRange |-> NoRange,
      selectedType |-> NullSelection,
      motionProfile |-> createDefaultMotionProfile ]

\* Array.prototype.findIndex(s => s.isSelected): first index or -1
findIndexSelected(s) ==
    IF \E i \in 1 .. Len(s) : s[i].isSelected
    THEN (CHOOSE i \in 1 .. Len(s) :
            s[i].isSelected /\ \A j \in 1 .. i - 1 : ~ s[j].isSelected) - 1
    ELSE -1

\* Array.prototype.splice(idx, 1)
RemoveAt0(s, idx) ==
    [i \in 1 .. Len(s) - 1 |-> IF i <= idx THEN s[i] ELSE s[i + 1]]

\* Array.prototype.splice(idx, 0, x)
InsertAt0(s, idx, x) ==
    [i \in 1 .. Len(s) + 1 |->
        IF i <= idx THEN s[i] ELSE IF i = idx + 1 THEN x ELSE s[i - 1]]

\* rebuildSegments with the loop running to i < points.length
rebuildSegments_OffByOne(r) ==
    LET selectedIdx == findIndexSelected(r.segments)
    IN [r EXCEPT !.segments =
            [k \in 1 .. Len(r.points) |->
                [RouteSegment(k - 1, k) EXCEPT !.isSelected = (k - 1 = selectedIdx)]]]

rebuildSegments(r) ==
    LET selectedIdx == findIndexSelected(r.segments)
        n == IF Len(r.points) > 0 THEN Len(r.points) - 1 ELSE 0
    IN [r EXCEPT !.segments =
            [k \in 1 .. n |->
                [RouteSegment(k - 1, k) EXCEPT !.isSelected = (k - 1 = selectedIdx)]]]

\* isSegmentLocked with the end of the range excluded
isSegmentLocked_ExclusiveEnd(r, segmentIdx) ==
    /\ r.simulatingSegmentRange.active
    /\ segmentIdx >= 0 /\ segmentIdx < Len(r.segments)
    /\ segmentIdx >= r.simulatingSegmentRange.start
    /\ segmentIdx < r.simulatingSegmentRange.end

isSegmentLocked(r, segmentIdx) ==
    /\ r.simulatingSegmentRange.active
    /\ segmentIdx >= 0 /\ segmentIdx < Len(r.segments)
    /\ segmentIdx >= r.simulatingSegmentRange.start
    /\ segmentIdx <= r.simulatingSegmentRange.end

\* isPointLocked looking only at the `from` end of the locked segments
isPointLocked_FromOnly(r, pointIdx) ==
    /\ r.simulatingSegmentRange.active
    /\ \E idx \in 0 .. Len(r.segments) - 1 :
          /\ idx >= r.simulatingSegmentRange.start
          /\ idx <= r.simulatingSegmentRange.end
          /\ At0(r.segments, idx).from = pointIdx

isPointLocked(r, pointIdx) ==
    /\ r.simulatingSegmentRange.active
    /\ \E idx \in 0 .. Len(r.segments) - 1 :
          /\ idx >= r.simulatingSegmentRange.start
          /\ idx <= r.simulatingSegmentRange.end
          /\ (At0(r.segments, idx).from = pointIdx \/ At0(r.segments, idx).to = pointIdx)

addPoint(r, lat, lon) ==
    rebuildSegments([r EXCEPT !.points = Append(r.points, RoutePoint(lat, lon))])

deletePoint(r, idx) ==
    IF idx >= 0 /\ idx < Len(r.points)
    THEN IF isPointLocked(r, idx)
         THEN r
         ELSE rebuildSegments([r EXCEPT !.points = RemoveAt0(r.points, idx)])
    ELSE r

\* movePoint without the lock check
movePoint_NoLockCheck(r, idx, lat, lon) ==
    IF idx >= 0 /\ idx < Len(r.points)
    THEN [r EXCEPT !.points[idx + 1].lat = lat, !.points[idx + 1].lon = lon]
    ELSE r

movePoint(r, idx, lat, lon) ==
    IF idx >= 0 /\ idx < Len(r.points)
    THEN IF isPointLocked(r, idx)
         THEN r
         ELSE [r EXCEPT !.points[idx + 1].lat = lat, !.points[idx + 1].lon = lon]
    ELSE r

deselectAll(r) ==
    [r EXCEPT !.points = [i \in 1 .. Len(r.points) |-> [r.points[i] EXCEPT !.isSelected = FALSE]],
              !.segments = [i \in 1 .. Len(r.segments) |-> [r.segments[i] EXCEPT !.isSelected = FALSE]],
              !.selectedType = NullSelection]

\* selectPoint without the deselectAll it starts with
selectPoint_NoDeselect(r, idx) ==
    IF idx >= 0 /\ idx < Len(r.points)
    THEN [r EXCEPT !.points[idx + 1].isSelected = TRUE,
                   !.selectedType = SelectionType.POINT]
    ELSE r

selectPoint(r, idx) ==
    LET d == deselectAll(r)
    IN IF idx >= 0 /\ idx < Len(d.points)
       THEN [d EXCEPT !.points[idx + 1].isSelected = TRUE,
                      !.selectedType = SelectionType.POINT]
       ELSE d

selectSegment(r, idx) ==
    LET d == deselectAll(r)
    IN IF idx >= 0 /\ idx < Len(d.segments)
       THEN [d EXCEPT !.segments[idx + 1].isSelected = TRUE,
                      !.selectedType = SelectionType.SEGMENT]
       ELSE d

resetSegmentStates(r) ==
    [r EXCEPT !.segments =
        [i \in 1 .. Len(r.segments) |-> [r.segments[i] EXCEPT !.state = SegmentState.PENDING]]]

startSimulation(r, startSegIdx, endSegIdx) ==
    LET end == IF endSegIdx # <<>> THEN endSegIdx[1] ELSE Len(r.segments) - 1
    IN resetSegmentStates([r EXCEPT !.simulatingSegmentRange = Range(startSegIdx, end)])

stopSimulation(r) ==
    resetSegmentStates([r EXCEPT !.simulatingSegmentRange = NoRange])

\* splitSegment without the check of the simulation range
splitSegment_IgnoresRange(r, idx) ==
    IF idx < 0 \/ idx >= Len(r.segments) THEN [route |-> r, ret |-> FALSE]
    ELSE IF isSegmentLocked(r, idx) THEN [route |-> r, ret |-> FALSE]
    ELSE IF ~ (idx + 2 <= Len(r.points)) THEN [route |-> r, ret |-> FALSE]
    ELSE
      LET fromPoint == At0(r.points, idx)
          toPoint == At0(r.points, idx + 1)
          midPoint == RoutePoint((fromPoint.lat + toPoint.lat) \div 2,
                                 (fromPoint.lon + toPoint.lon) \div 2)
          oldSegments == r.segments
          oldSelectedIdx == findIndexSelected(oldSegments)
          newPoints == InsertAt0(r.points, idx + 1, midPoint)
          sourceIdx(i) == IF i = idx \/ i = idx + 1 THEN idx
                          ELSE IF i < idx THEN i ELSE i - 1
          selIdx == IF oldSelectedIdx < 0 THEN -1
                    ELSE IF oldSelectedIdx = idx THEN idx
                    ELSE IF oldSelectedIdx > idx
                         THEN (IF oldSelectedIdx + 1 < Len(newPoints) - 1
                               THEN oldSelectedIdx + 1 ELSE -1)
                    ELSE oldSelectedIdx
          newSegments ==
              [k \in 1 .. Len(newPoints) - 1 |->
                  [RouteSegment(k - 1, k) EXCEPT
                      !.state = At0(oldSegments, sourceIdx(k - 1)).state,
                      !.isSelected = (k - 1 = selIdx)]]
          newType == IF oldSelectedIdx < 0 THEN NullSelection
                     ELSE IF selIdx >= 0 THEN SelectionType.SEGMENT
                     ELSE r.selectedType
      IN [route |-> [r EXCEPT !.points = newPoints,
                              !.segments = newSegments,
                              !.selectedType = newType],
          ret |-> TRUE]

\* Result of splitSegment: the route afterwards and the boolean it returns
splitSegment(r, idx) ==
    IF r.simulatingSegmentRange.active THEN [route |-> r, ret |-> FALSE]
    ELSE IF idx < 0 \/ idx >= Len(r.segments) THEN [route |-> r, ret |-> FALSE]
    ELSE IF isSegmentLocked(r, idx) THEN [route |-> r, ret |-> FALSE]
    ELSE IF ~ (idx + 2 <= Len(r.points)) THEN [route |-> r, ret |-> FALSE]
    ELSE
      LET fromPoint == At0(r.points, idx)
          toPoint == At0(r.points, idx + 1)
          midPoint == RoutePoint((fromPoint.lat + toPoint.lat) \div 2,
                                 (fromPoint.lon + toPoint.lon) \div 2)
          oldSegments == r.segments
          oldSelectedIdx == findIndexSelected(oldSegments)
          newPoints == InsertAt0(r.points, idx + 1, midPoint)
          sourceIdx(i) == IF i = idx \/ i = idx + 1 THEN idx
                          ELSE IF i < idx THEN i ELSE i - 1
          selIdx == IF oldSelectedIdx < 0 THEN -1
                    ELSE IF oldSelectedIdx = idx THEN idx
                    ELSE IF oldSelectedIdx > idx
                         THEN (IF oldSelectedIdx + 1 < Len(newPoints) - 1
                               THEN oldSelectedIdx + 1 ELSE -1)
                    ELSE oldSelectedIdx
          newSegments ==
              [k \in 1 .. Len(newPoints) - 1 |->
                  [RouteSegment(k - 1, k) EXCEPT
                      !.state = At0(oldSegments, sourceIdx(k - 1)).state,
                      !.isSelected = (k - 1 = selIdx)]]
          newType == IF oldSelectedIdx < 0 THEN NullSelection
                     ELSE IF selIdx >= 0 THEN SelectionType.SEGMENT
                     ELSE r.selectedType
      IN [route |-> [r EXCEPT !.points = newPoints,
                              !.segments = newSegments,
                              !.selectedType = newType],
          ret |-> TRUE]

\* 4 * (squared distance from (lat, lon) to the midpoint of segment idx);
\* Math.hypot is monotone in it
MidDist2(r, idx, lat, lon) ==
    LET fromPt == At0(r.points, At0(r.segments, idx).from)
        toPt == At0(r.points, At0(r.segments, idx).to)
        dLat == 2 * lat - (fromPt.lat + toPt.lat)
        dLon == 2 * lon - (fromPt.lon + toPt.lon)
    IN dLat * dLat + dLon * dLon

updateSegmentStates(r, currentLat, currentLon) ==
    IF Len(r.segments) = 0 THEN r
    ELSE
      LET Idx == 0 .. Len(r.segments) - 1
          d(i) == MidDist2(r, i, currentLat, currentLon)
          \* `dist < minDist` keeps the first of the nearest segments
          currentSegIdx == CHOOSE i \in Idx :
                              /\ \A j \in Idx : d(i) <= d(j)
                              /\ \A j \in Idx : j < i => d(j) > d(i)
      IN [r EXCEPT !.segments =
            [k \in 1 .. Len(r.segments) |->
                [r.segments[k] EXCEPT !.state =
                    IF k - 1 < currentSegIdx THEN SegmentState.DONE
                    ELSE IF k - 1 = currentSegIdx THEN SegmentState.ACTIVE
                    ELSE SegmentState.PENDING]]]

----------------------------------------------------------------------------
(* useMapObjectPool.ts: the pool's four Maps, and of the HERE map what the  *)
(* pool does to it: the objects added to the map and the listeners on each  *)
(* object.  An id names the object the pool holds or held last under it.    *)

MarkerIds == { <<"waypoint", i>> : i \in 0 .. MaxPoints - 1 } \cup { <<"preview", 0>> }
LineIds ==
    { <<"segment", i>> : i \in 0 .. MaxPoints - 2 }
      \cup { <<"segment-border", i>> : i \in 0 .. MaxPoints - 2 }
      \cup { <<"drag-prev", 0>>, <<"drag-next", 0>>, <<"preview-line", 0>> }

\* << >> is "no entry"
EmptyPool ==
    [ markers |-> [id \in MarkerIds |-> << >>],
      lines |-> [id \in LineIds |-> << >>],
      markerHandlers |-> [id \in MarkerIds |-> << >>],
      lineHandlers |-> [id \in LineIds |-> << >>],
      onMap |-> {},
      listeners |-> [id \in MarkerIds \cup LineIds |-> << >>] ]

\* object.removeEventListener(event, handler): the listener goes if it is on
RECURSIVE removeEventListener(_, _)
removeEventListener(ls, event) ==
    IF ls = << >> THEN << >>
    ELSE IF Head(ls) = event THEN Tail(ls)
    ELSE << Head(ls) >> \o removeEventListener(Tail(ls), event)

\* handlers.forEach(({ event, handler }) => object.removeEventListener(..))
RECURSIVE removeEach(_, _)
removeEach(ls, handlers) ==
    IF handlers = << >> THEN ls
    ELSE removeEach(removeEventListener(ls, Head(handlers)), Tail(handlers))

\* removeMarker that leaves the marker's listeners on it
removeMarker_KeepsListeners(p, m, id) ==
    IF p.markers[id] # << >> /\ m
    THEN [p EXCEPT !.markerHandlers[id] = << >>,
                   !.onMap = @ \ {id},
                   !.markers[id] = << >>]
    ELSE p

removeMarker(p, m, id) ==
    IF p.markers[id] # << >> /\ m
    THEN [p EXCEPT !.listeners[id] = removeEach(@, p.markerHandlers[id]),
                   !.markerHandlers[id] = << >>,
                   !.onMap = @ \ {id},
                   !.markers[id] = << >>]
    ELSE p

createMarker(p, m, id, geometry) ==
    LET q == removeMarker(p, m, id)
    IN IF ~ m THEN q
       ELSE [q EXCEPT !.listeners[id] = << >>,
                      !.onMap = @ \cup {id},
                      !.markers[id] = << geometry >>]

updateMarker(p, id, geometry) ==
    IF p.markers[id] # << >> THEN [p EXCEPT !.markers[id] = << geometry >>] ELSE p

hasMarker(p, id) == p.markers[id] # << >>

removeLine(p, m, id) ==
    IF p.lines[id] # << >> /\ m
    THEN [p EXCEPT !.listeners[id] = removeEach(@, p.lineHandlers[id]),
                   !.lineHandlers[id] = << >>,
                   !.onMap = @ \ {id},
                   !.lines[id] = << >>]
    ELSE p

createLine(p, m, id, coordinates) ==
    LET q == removeLine(p, m, id)
    IN IF ~ m THEN q
       ELSE [q EXCEPT !.listeners[id] = << >>,
                      !.onMap = @ \cup {id},
                      !.lines[id] = << coordinates >>]

updateLine(p, m, id, coordinates) ==
    IF p.lines[id] = << >> THEN createLine(p, m, id, coordinates)
    ELSE [p EXCEPT !.lines[id] = << coordinates >>]

hasLine(p, id) == p.lines[id] # << >>

addMarkerEvent(p, id, eventName) ==
    IF p.markers[id] # << >>
    THEN [p EXCEPT !.listeners[id] = Append(@, eventName),
                   !.markerHandlers[id] = Append(@, eventName)]
    ELSE p

addLineEvent(p, id, eventName) ==
    IF p.lines[id] # << >>
    THEN [p EXCEPT !.listeners[id] = Append(@, eventName),
                   !.lineHandlers[id] = Append(@, eventName)]
    ELSE p

\* removeMarker / removeLine for each id of a set, in any order
RECURSIVE removeMarkers(_, _, _)
removeMarkers(p, m, ids) ==
    IF ids = {} THEN p
    ELSE LET id == CHOOSE x \in ids : TRUE
         IN removeMarkers(removeMarker(p, m, id), m, ids \ {id})

RECURSIVE removeLines(_, _, _)
removeLines(p, m, ids) ==
    IF ids = {} THEN p
    ELSE LET id == CHOOSE x \in ids : TRUE
         IN removeLines(removeLine(p, m, id), m, ids \ {id})

cleanup(p, m) ==
    removeLines(removeMarkers(p, m, { id \in MarkerIds : hasMarker(p, id) }),
                m, { id \in LineIds : hasLine(p, id) })

----------------------------------------------------------------------------
(* Spec: the Route class, one action per public method *)

\* last: no file operation; or saveRoute / handleLoadRoute, whether it went
\* through, and whether it changed the route shown
NoFileOp == [op |-> "none", ret |-> TRUE, changed |-> FALSE]
FileOp(op, ret, r) == [op |-> op, ret |-> ret, changed |-> (r # route)]

Init ==
    /\ route = NewRoute
    /\ simState = "idle"
    /\ mode = "view"
    /\ isMapReady = FALSE
    /\ pendingRoute = << >>
    /\ savedDoc = << >>
    /\ savedFrom = << >>
    /\ showClearConfirm = FALSE
    /\ last = NoFileOp
    /\ jobs = [s \in Sessions |-> << >>]
    /\ runState = [s \in Sessions |-> "idle"]
    /\ activeRange = [s \in Sessions |-> NoRange]
    /\ sdrAlive = [s \in Sessions |-> FALSE]
    /\ deviceHolder = "none"
    /\ resp = [op |-> "createSession", session |-> "none", result |-> "ok",
               start |-> 0, end |-> << >>]
    /\ mounted = TRUE
    /\ ws = "null"
    /\ sock = "none"
    /\ timer = FALSE
    /\ opened = 0
    /\ beState = "idle"
    /\ beRoute = << >>
    /\ beRun = 0
    /\ inbox = << >>
    /\ call = [pc |-> "none", start |-> 0, body |-> << >>]
    /\ stopCall = "none"
    /\ endSeenRun = 0
    /\ statusFetch = "none"
    /\ routeFetch = [pc |-> "none", data |-> << >>]
    /\ syncTimer = FALSE
    /\ bgPut = << >>
    /\ mapValue = FALSE
    /\ pool = EmptyPool
    /\ lastSegmentCount = 0
    /\ lastWaypointCount = 0
    /\ lastRouteRenderTime = 0
    /\ ticks = 0
    /\ dragState = [isDragging |-> FALSE, pointIndex |-> -1, startPosition |-> << >>]
    /\ poolOp = [op |-> "none", ids |-> {}, live |-> FALSE, had |-> {}]
    /\ dragOp = [op |-> "none", pointIndex |-> -1, locked |-> FALSE, moved |-> FALSE]
    /\ behavior = "null"
    /\ lockHist = [held |-> {}, broken |-> FALSE]

Apply(r) ==
    /\ route' = r
    /\ last' = NoFileOp

AddPoint(p) ==
    /\ Len(route.points) < MaxPoints
    /\ Apply(addPoint(route, p.lat, p.lon))
    /\ UNCHANGED appVars

DeletePoint(idx) ==
    /\ Apply(deletePoint(route, idx))
    /\ UNCHANGED appVars

MovePoint(idx, p) ==
    /\ Apply(movePoint(route, idx, p.lat, p.lon))
    /\ UNCHANGED appVars

SelectPoint(idx) ==
    /\ Apply(selectPoint(route, idx))
    /\ UNCHANGED appVars

SelectSegment(idx) ==
    /\ Apply(selectSegment(route, idx))
    /\ UNCHANGED appVars

DeselectAll ==
    /\ Apply(deselectAll(route))
    /\ UNCHANGED appVars

\* The split is kept within MaxPoints and within the coordinate resolution
CanSplitInBounds(r, idx) ==
    /\ Len(r.points) < MaxPoints
    /\ (idx >= 0 /\ idx + 2 <= Len(r.points)) =>
          /\ (At0(r.points, idx).lat + At0(r.points, idx + 1).lat) % 2 = 0
          /\ (At0(r.points, idx).lon + At0(r.points, idx + 1).lon) % 2 = 0

SplitSegment(idx) ==
    /\ CanSplitInBounds(route, idx)
    /\ LET res == splitSegment(route, idx)
       IN Apply(res.route)
    /\ UNCHANGED appVars

StartSimulation(startSegIdx, endSegIdx) ==
    /\ Apply(startSimulation(route, startSegIdx, endSegIdx))
    /\ UNCHANGED appVars

StopSimulation ==
    /\ Apply(stopSimulation(route))
    /\ UNCHANGED appVars

UpdateSegmentStates(p) ==
    /\ Apply(updateSegmentStates(route, p.lat, p.lon))
    /\ UNCHANGED appVars

Next ==
    \/ \E p \in Positions : AddPoint(p)
    \/ \E idx \in IdxArgs : DeletePoint(idx)
    \/ \E idx \in IdxArgs, p \in Positions : MovePoint(idx, p)
    \/ \E idx \in IdxArgs : SelectPoint(idx)
    \/ \E idx \in IdxArgs : SelectSegment(idx)
    \/ DeselectAll
    \/ \E idx \in IdxArgs : SplitSegment(idx)
    \/ \E s \in StartArgs, e \in EndArgs : StartSimulation(s, e)
    \/ StopSimulation
    \/ \E p \in Positions : UpdateSegmentStates(p)

Spec == Init /\ [][Next]_vars

----------------------------------------------------------------------------
(* Properties of the Route class, checked under Spec *)

\* Waypoint i is an endpoint of a segment whose index lies in the range:
\* segment k joins waypoints k and k + 1
BoundsSegmentInRange(r, i) ==
    /\ r.simulatingSegmentRange.active
    /\ \E k \in 0 .. Len(r.segments) - 1 :
          /\ r.simulatingSegmentRange.start <= k
          /\ k <= r.simulatingSegmentRange.end
          /\ (i = k \/ i = k + 1)

Coords(pts) == [i \in 1 .. Len(pts) |-> [lat |-> pts[i].lat, lon |-> pts[i].lon]]

\* C1: in every reachable state with a simulation range {s,e} set,
\* deletePoint(i) and movePoint(i, ..) on a waypoint bounding a segment of
\* [s,e] leave points and segments unchanged; on any other waypoint
\* deletePoint removes exactly that waypoint and movePoint gives exactly that
\* waypoint the new position.
C1_LockInvariant ==
    route.simulatingSegmentRange.active =>
      \A idx \in 0 .. Len(route.points) - 1 :
        LET del == deletePoint(route, idx)
        IN IF BoundsSegmentInRange(route, idx)
           THEN /\ del.points = route.points
                /\ del.segments = route.segments
                /\ \A p \in Positions :
                      LET mv == movePoint(route, idx, p.lat, p.lon)
                      IN mv.points = route.points /\ mv.segments = route.segments
           ELSE /\ Len(del.points) = Len(route.points) - 1
                /\ \A j \in 0 .. Len(del.points) - 1 :
                      At0(del.points, j) =
                        At0(route.points, IF j < idx THEN j ELSE j + 1)
                /\ \A p \in Positions :
                      LET mv == movePoint(route, idx, p.lat, p.lon)
                      IN /\ Len(mv.points) = Len(route.points)
                         /\ At0(mv.points, idx).lat = p.lat
                         /\ At0(mv.points, idx).lon = p.lon
                         /\ \A j \in 0 .. Len(route.points) - 1 :
                               j # idx => At0(mv.points, j) = At0(route.points, j)

\* C1 witness: a route of three waypoints running its second segment only:
\* the delete of waypoint 1 is refused, the delete of waypoint 0 goes through
C1_Witness_Rejected ==
    /\ Len(route.points) = 3
    /\ route.simulatingSegmentRange = Range(1, 1)
    /\ deletePoint(route, 1) = route
    /\ Len(deletePoint(route, 0).points) = 2

\* C2: the segments are derived from the waypoints: one segment fewer than
\* waypoints (none for an empty route), segment i joining i and i + 1.
C2_SegmentsDerived ==
    /\ Len(route.segments) = (IF Len(route.points) >= 1 THEN Len(route.points) - 1 ELSE 0)
    /\ \A i \in 0 .. Len(route.segments) - 1 :
          /\ At0(route.segments, i).from = i
          /\ At0(route.segments, i).to = i + 1

\* C2 witness: a route of two waypoints that starts at a midpoint: a segment
\* was split and the waypoint before the new one deleted
C2_Witness_AfterDelete ==
    /\ Len(route.points) = 2
    /\ Len(route.segments) = 1
    /\ At0(route.points, 0).lat = 1 /\ At0(route.points, 0).lon = 1

\* C4: in every reachable state, startSimulation(start, end) yields a route
\* whose locked segments are exactly those with index in [start, end], a null
\* end meaning segments.length - 1, and whose segment states are all PENDING.
C4_StartLocksRange ==
    \A start \in StartArgs, endSegIdx \in EndArgs :
        LET r == startSimulation(route, start, endSegIdx)
            end == IF endSegIdx = << >> THEN Len(route.segments) - 1 ELSE endSegIdx[1]
        IN /\ r.simulatingSegmentRange = Range(start, end)
           /\ \A k \in -1 .. Len(r.segments) :
                 isSegmentLocked(r, k) <=>
                    (k >= 0 /\ k < Len(r.segments) /\ start <= k /\ k <= end)
           /\ \A k \in 0 .. Len(r.segments) - 1 :
                 At0(r.segments, k).state = SegmentState.PENDING

\* C4 witness: a run from segment 1 was started on a two-segment route whose
\* first segment is selected: segment 1 is locked, segment 0 is not
C4_Witness_NullEnd ==
    /\ Len(route.segments) = 2
    /\ route.simulatingSegmentRange = Range(1, 1)
    /\ route = startSimulation(route, 1, << >>)
    /\ isSegmentLocked(route, 1) /\ ~ isSegmentLocked(route, 0)
    /\ At0(route.segments, 0).isSelected

\* C6: a startSimulation whose start or end index lies beyond the last
\* segment is rejected: the simulation range is left as it was.
C6_OutOfRangeRunRejected ==
    [][ \A start \in StartArgs, endSegIdx \in EndArgs :
          (/\ route' = startSimulation(route, start, endSegIdx)
           /\ \/ start > Len(route.segments) - 1
              \/ (endSegIdx # << >> /\ endSegIdx[1] > Len(route.segments) - 1))
          => route'.simulatingSegmentRange = route.simulatingSegmentRange
      ]_vars

\* C14: while a simulation range is set, splitSegment(idx) returns false for
\* every idx and leaves the route (points, segments, selection, range) as it
\* is; and it returns false without any change when idx is outside
\* [0, segments.length - 1].
C14_SplitRefused ==
    \A idx \in IdxArgs :
        LET res == splitSegment(route, idx)
        IN (\/ route.simulatingSegmentRange.active
            \/ idx < 0
            \/ idx > Len(route.segments) - 1) =>
              (res.ret = FALSE /\ res.route = route)

\* C14 witness: three points, the range is segment 0 only, a segment is
\* selected, and the split of the unlocked segment 1 is refused
C14_Witness_UnlockedSegmentRefused ==
    /\ route.simulatingSegmentRange = Range(0, 0)
    /\ Len(route.segments) = 2
    /\ ~ isSegmentLocked(route, 1)
    /\ At0(route.segments, 1).isSelected
    /\ splitSegment(route, 1) = [route |-> route, ret |-> FALSE]

----------------------------------------------------------------------------
(* App.vue and the RouteControlPanel.vue controls that call into it *)

hasSelectedSegment == \E i \in 1 .. Len(route.segments) : route.segments[i].isSelected

\* :disabled expressions of the buttons
RunDisabled == Len(route.points) < 2 \/ simState = "running"
RunFromSegmentDisabled == simState = "running" \/ ~ hasSelectedSegment
StopDisabled == simState # "running"
ClearDisabled == Len(route.points) = 0 \/ simState = "running"
SplitDisabled == ~ hasSelectedSegment
SaveDisabled == Len(route.points) < 2

\* MapView handleMapClick: a tap adds a waypoint in add mode and deselects
\* in view mode
HandleMapClick(p) ==
    /\ IF mode = "add"
       THEN /\ Len(route.points) < MaxPoints
            /\ route' = addPoint(route, p.lat, p.lon)
       ELSE route' = deselectAll(route)
    /\ last' = NoFileOp
    /\ UNCHANGED appVars

\* onModeChange; MapView's watcher of props.mode deselects
OnModeChange(newMode) ==
    /\ newMode # mode
    /\ mode' = newMode
    /\ route' = deselectAll(route)
    /\ last' = NoFileOp
    /\ UNCHANGED <<simState, isMapReady, pendingRoute, savedDoc, savedFrom,
                   showClearConfirm, backVars>>

HandleKeyDownEscape ==
    /\ mode' = "view"
    /\ route' = deselectAll(route)
    /\ last' = NoFileOp
    /\ UNCHANGED <<simState, isMapReady, pendingRoute, savedDoc, savedFrom,
                   showClearConfirm, backVars>>

HandleKeyDownDelete ==
    LET selectedIdx == findIndexSelected(route.points)
        r == IF selectedIdx >= 0 THEN deletePoint(route, selectedIdx) ELSE route
    IN /\ route' = r
       /\ last' = NoFileOp
       /\ UNCHANGED appVars

OnMoveWaypoint(idx, p) ==
    /\ route' = movePoint(route, idx, p.lat, p.lon)
    /\ last' = NoFileOp
    /\ UNCHANGED appVars

OnSelectWaypoint(idx) ==
    /\ route' = selectPoint(route, idx)
    /\ last' = NoFileOp
    /\ UNCHANGED appVars

OnSelectSegment(idx) ==
    /\ route' = selectSegment(route, idx)
    /\ last' = NoFileOp
    /\ UNCHANGED appVars

SplitSelectedSegment ==
    /\ ~ SplitDisabled
    /\ LET idx == findIndexSelected(route.segments)
       IN /\ CanSplitInBounds(route, idx)
          /\ LET res == IF idx < 0 THEN [route |-> route, ret |-> FALSE]
                        ELSE splitSegment(route, idx)
             IN /\ route' = res.route
                /\ last' = NoFileOp
    /\ UNCHANGED appVars

runSim ==
    IF Len(route.points) < 2
    THEN /\ last' = NoFileOp
         /\ UNCHANGED <<route, simState>>
    ELSE /\ route' = startSimulation(route, 0, << >>)
         /\ simState' = "running"
         /\ last' = NoFileOp

RunSim ==
    /\ ~ RunDisabled
    /\ runSim
    /\ UNCHANGED <<mode, isMapReady, pendingRoute, savedDoc, savedFrom,
                   showClearConfirm, backVars>>

runSimFromSegment ==
    LET selectedIdx == findIndexSelected(route.segments)
    IN IF selectedIdx < 0
       THEN /\ last' = NoFileOp
            /\ UNCHANGED <<route, simState>>
       ELSE /\ route' = startSimulation(route, selectedIdx, << >>)
            /\ simState' = "running"
            /\ last' = NoFileOp

RunSimFromSegment ==
    /\ ~ RunFromSegmentDisabled
    /\ runSimFromSegment
    /\ UNCHANGED <<mode, isMapReady, pendingRoute, savedDoc, savedFrom,
                   showClearConfirm, backVars>>

\* stopSim without the call of route.stopSimulation()
stopSim_KeepsRange ==
    /\ simState' = "stopped"
    /\ route' = route
    /\ last' = NoFileOp

stopSim ==
    /\ simState' = "stopped"
    /\ route' = stopSimulation(route)
    /\ last' = NoFileOp

StopSim ==
    /\ ~ StopDisabled
    /\ stopSim
    /\ UNCHANGED <<mode, isMapReady, pendingRoute, savedDoc, savedFrom,
                   showClearConfirm, backVars>>

\* Clear button: opens the confirmation modal
HandleClear ==
    /\ ~ ClearDisabled
    /\ ~ showClearConfirm
    /\ showClearConfirm' = TRUE
    /\ last' = NoFileOp
    /\ UNCHANGED <<mode, route, simState, isMapReady, pendingRoute, savedDoc, savedFrom, backVars>>

CancelClear ==
    /\ showClearConfirm
    /\ showClearConfirm' = FALSE
    /\ last' = NoFileOp
    /\ UNCHANGED <<mode, route, simState, isMapReady, pendingRoute, savedDoc, savedFrom, backVars>>

\* confirmClear -> onReset = resetRoute
ConfirmClear ==
    /\ showClearConfirm
    /\ showClearConfirm' = FALSE
    /\ route' = NewRoute
    /\ last' = NoFileOp
    /\ UNCHANGED <<mode, simState, isMapReady, pendingRoute, savedDoc, savedFrom, backVars>>

----------------------------------------------------------------------------
(* Scenario files: RouteControlPanel.vue saveRoute / loadRouteFromFile and  *)
(* App.vue handleLoadRoute.  JSON.stringify / JSON.parse keep the records   *)
(* built here as they are (strings, finite numbers, arrays, plain objects). *)

ROUTE_SCHEMA_VERSION == 1
ROUTE_APP_VERSION == "0.1"

\* File names the save picker can hand back, and the file picked for loading
HandleNames == { ".json", "trip.json" }
LoadFileName == "trip.json"

\* name.replace('.json', '')
StripJson(name) ==
    CASE name = ".json" -> ""
      [] name = "trip.json" -> "trip"
      [] OTHER -> name

\* cruise speeds the user can type into the motion profile form
CruiseSpeeds == { 20, 36 }

buildRouteData(r) ==
    LET scenarioName == IF r.routeId # "" THEN r.routeId ELSE "Scenario-<now>"
    IN [ schema_version |-> ROUTE_SCHEMA_VERSION,
         scenario |->
           [ meta |-> [ id |-> "<uuid>", created_at |-> "<now>",
                        app_version |-> ROUTE_APP_VERSION, name |-> scenarioName ],
             route |-> [ points |-> [i \in 1 .. Len(r.points) |->
                                       [lat |-> r.points[i].lat, lon |-> r.points[i].lon]] ],
             motion_profile |-> r.motionProfile ] ]

RECURSIVE AddWaypoints(_, _)
\* waypoints.forEach(wp => newRoute.addPoint(wp.lat, wp.lon))
AddWaypoints(r, waypoints) ==
    IF Len(waypoints) = 0 THEN r
    ELSE AddWaypoints(addPoint(r, Head(waypoints).lat, Head(waypoints).lon),
                      Tail(waypoints))

\* buildRouteFromPayload that leaves the new route's default profile
buildRouteFromPayload_DefaultProfile(waypoints, motionProfile, routeId) ==
    LET withPoints == AddWaypoints(NewRoute, waypoints)
    IN [withPoints EXCEPT !.routeId =
           IF routeId # "" THEN routeId ELSE "Loaded Route"]

buildRouteFromPayload(waypoints, motionProfile, routeId) ==
    LET withPoints == AddWaypoints(NewRoute, waypoints)
        named == [withPoints EXCEPT !.routeId =
                     IF routeId # "" THEN routeId ELSE "Loaded Route"]
    IN IF motionProfile.type = "simple"
       THEN [named EXCEPT !.motionProfile = motionProfile]
       ELSE named

\* handleLoadRoute's validity test of event.detail
ValidRouteData(data) == data.schema_version = 1

\* queueRouteApply / applyLoadedRoute: the new values of route, mode and
\* pendingRoute
QueueRouteApply(newRoute) ==
    IF isMapReady
    THEN /\ route' = newRoute
         /\ mode' = "view"
         /\ UNCHANGED pendingRoute
    ELSE /\ pendingRoute' = <<newRoute>>
         /\ UNCHANGED <<route, mode>>

handleLoadRoute(data) ==
    IF ~ ValidRouteData(data)
    THEN /\ last' = FileOp("handleLoadRoute", FALSE, route)
         /\ UNCHANGED <<route, mode, pendingRoute>>
    ELSE LET newRoute == buildRouteFromPayload(data.scenario.route.points,
                                               data.scenario.motion_profile,
                                               data.scenario.meta.name)
         IN /\ QueueRouteApply(newRoute)
            /\ last' = FileOp("handleLoadRoute", TRUE, IF isMapReady THEN newRoute ELSE route)

\* loadRouteFromFile: parse the file, default a missing name to the file
\* name, dispatch 'load-route'
LoadRouteFromFile(file) ==
    /\ LET data == IF file.scenario.meta.name = ""
                   THEN [file EXCEPT !.scenario.meta.name = StripJson(LoadFileName)]
                   ELSE file
       IN handleLoadRoute(data)
    /\ UNCHANGED <<simState, isMapReady, savedDoc, savedFrom, showClearConfirm, backVars>>

LoadSavedRoute ==
    /\ savedDoc # << >>
    /\ LoadRouteFromFile(savedDoc[1])

HandleMapReady ==
    /\ ~ isMapReady
    /\ isMapReady' = TRUE
    /\ IF pendingRoute # << >>
       THEN /\ route' = pendingRoute[1]
            /\ mode' = "view"
            /\ last' = NoFileOp
       ELSE /\ UNCHANGED <<route, mode>>
            /\ last' = NoFileOp
    /\ pendingRoute' = << >>
    /\ UNCHANGED <<simState, savedDoc, savedFrom, showClearConfirm, backVars>>

Snapshot(r) ==
    [routeId |-> r.routeId, points |-> Coords(r.points), motionProfile |-> r.motionProfile]

\* saveRoute through showSaveFilePicker: the route takes the file's name,
\* then the document is built and written
SaveRoute(handleName) ==
    /\ ~ SaveDisabled
    /\ LET named == [route EXCEPT !.routeId = StripJson(handleName)]
       IN /\ route' = named
          /\ savedDoc' = <<buildRouteData(named)>>
          /\ savedFrom' = <<Snapshot(named)>>
          /\ last' = FileOp("saveRoute", TRUE, named)
    /\ UNCHANGED <<mode, simState, isMapReady, pendingRoute,
                   showClearConfirm, backVars>>

\* saveRoute without the picker: download of the document, no rename
SaveRouteFallback ==
    /\ ~ SaveDisabled
    /\ savedDoc' = <<buildRouteData(route)>>
    /\ savedFrom' = <<Snapshot(route)>>
    /\ last' = FileOp("saveRoute:download", TRUE, route)
    /\ UNCHANGED <<mode, route, simState, isMapReady, pendingRoute,
                   showClearConfirm, backVars>>

\* v-model.number on route.motionProfile.params.cruise_speed_kmh
EditMotionProfile(v) ==
    /\ route' = [route EXCEPT !.motionProfile.params.cruise_speed_kmh = v]
    /\ last' = NoFileOp
    /\ UNCHANGED appVars

\* A scenario file that did not come from this session: a valid two-point
\* scenario, and one with another schema version
ExampleDoc(version) ==
    [ schema_version |-> version,
      scenario |->
        [ meta |-> [ id |-> "<uuid>", created_at |-> "<then>",
                     app_version |-> ROUTE_APP_VERSION, name |-> "trip" ],
          route |-> [ points |-> << [lat |-> 0, lon |-> 2], [lat |-> 2, lon |-> 0] >> ],
          motion_profile |-> createDefaultMotionProfile ] ]

LoadExampleRoute(version) == LoadRouteFromFile(ExampleDoc(version))

----------------------------------------------------------------------------
(* SpecApp: the application, one action per user gesture or event *)

\* markers, lines and table rows exist for the waypoints and segments shown
PointIdx == 0 .. Len(route.points) - 1
SegmentIdx == 0 .. Len(route.segments) - 1

NextApp ==
    \/ \E p \in Positions : HandleMapClick(p)
    \/ \E m \in {"view", "add"} : OnModeChange(m)
    \/ HandleKeyDownEscape
    \/ HandleKeyDownDelete
    \/ \E idx \in PointIdx, p \in Positions : OnMoveWaypoint(idx, p)
    \/ \E idx \in PointIdx : OnSelectWaypoint(idx)
    \/ \E idx \in SegmentIdx : OnSelectSegment(idx)
    \/ SplitSelectedSegment
    \/ RunSim
    \/ RunSimFromSegment
    \/ StopSim
    \/ HandleClear
    \/ CancelClear
    \/ ConfirmClear
    \/ \E v \in {1, 2} : LoadExampleRoute(v)
    \/ HandleMapReady

SpecApp == Init /\ [][NextApp]_vars

\* C3: segment locks exist only while the run state is 'running': whenever
\* route.simulatingSegmentRange is set, simState is 'running'; and once
\* stopSim has set simState to 'stopped' no waypoint and no segment is locked.
C3_LocksOnlyWhileRunning ==
    /\ route.simulatingSegmentRange.active => simState = "running"
    /\ simState = "stopped" =>
          \A k \in -1 .. Len(route.points) :
             ~ isPointLocked(route, k) /\ ~ isSegmentLocked(route, k)

\* C3 witness: stopSim ended a run on a route of three waypoints whose
\* segment 1 is still selected (the run from that segment)
C3_Witness_StopAfterRun ==
    /\ simState = "stopped"
    /\ Len(route.points) = 3
    /\ At0(route.segments, 1).isSelected

----------------------------------------------------------------------------
(* SpecScenario: building a route, saving it to a file and loading it back *)

NextScenario ==
    \/ \E p \in Positions : HandleMapClick(p)
    \/ \E m \in {"view", "add"} : OnModeChange(m)
    \/ \E v \in CruiseSpeeds : EditMotionProfile(v)
    \/ \E n \in HandleNames : SaveRoute(n)
    \/ SaveRouteFallback
    \/ LoadSavedRoute
    \/ HandleMapReady

SpecScenario == Init /\ [][NextScenario]_vars

\* The route that handleLoadRoute built: shown at once when the map is
\* ready, parked in pendingRoute otherwise
LoadedRoute == IF isMapReady THEN route ELSE pendingRoute[1]

JustLoaded == last.op = "handleLoadRoute" /\ last.ret

DocHasShape(doc) ==
    /\ DOMAIN doc = {"schema_version", "scenario"}
    /\ DOMAIN doc.scenario = {"meta", "route", "motion_profile"}
    /\ DOMAIN doc.scenario.route = {"points"}
    /\ \A i \in 1 .. Len(doc.scenario.route.points) :
          DOMAIN doc.scenario.route.points[i] = {"lat", "lon"}

\* C7 as stated: every saved document has the shape {schema_version,
\* scenario:{meta, route:{points}, motion_profile}}, and loading it through
\* handleLoadRoute yields a route with the same ordered waypoint lat/lon
\* values, the same motion profile and the same name as the route saved.
C7_RoundTrip_SameName ==
    /\ savedDoc # << >> => DocHasShape(savedDoc[1])
    /\ JustLoaded =>
          /\ Coords(LoadedRoute.points) = savedFrom[1].points
          /\ LoadedRoute.motionProfile = savedFrom[1].motionProfile
          /\ LoadedRoute.routeId = savedFrom[1].routeId

\* C7 amended: shape, waypoints and motion profile as stated; the name is the
\* same when the saved route's name is not empty, and is the generated
\* "Scenario-<time>" name of the document when it is empty.
C7_RoundTrip ==
    /\ savedDoc # << >> => DocHasShape(savedDoc[1])
    /\ JustLoaded =>
          /\ Coords(LoadedRoute.points) = savedFrom[1].points
          /\ LoadedRoute.motionProfile = savedFrom[1].motionProfile
          /\ LoadedRoute.routeId =
                IF savedFrom[1].routeId # "" THEN savedFrom[1].routeId
                ELSE savedDoc[1].scenario.meta.name

\* C7 witness: a named route saved with an edited motion profile, edited
\* further after the save, and then replaced by the loaded file
C7_Witness_LoadedBack ==
    /\ JustLoaded
    /\ isMapReady
    /\ last.changed
    /\ savedFrom[1].routeId = "trip"
    /\ savedFrom[1].motionProfile.params.cruise_speed_kmh = 36
    /\ Len(route.points) = 2
    /\ route.points[1].lat # route.points[2].lat

----------------------------------------------------------------------------
(* SpecSession: the back end (Session Manager, Signal Build Pipeline, Run  *)
(* Orchestrator).  Its code is not among the sources; it is modelled from   *)
(* the specification, sections 4.2 to 4.4 and 5, and, where the            *)
(* repository's TODO.md records that the implementation differs, from that. *)
(* Requests and events of one session are handled one at a time under the   *)
(* session lock, so each is one step.                                       *)

JobStatus == { "pending", "running", "completed", "failed", "canceled" }
TerminalStatus == { "completed", "failed", "canceled" }

ActiveJobs(s) == { i \in 1 .. Len(jobs[s]) : jobs[s][i] \notin TerminalStatus }
HasCompletedJob(s) == \E i \in 1 .. Len(jobs[s]) : jobs[s][i] = "completed"

RECURSIVE JobsIn(_)
\* number of Build Jobs the sessions of S have created
JobsIn(S) ==
    IF S = {} THEN 0
    ELSE LET s == CHOOSE x \in S : TRUE IN Len(jobs[s]) + JobsIn(S \ {s})

Resp(op, s, result, start, end) ==
    [op |-> op, session |-> s, result |-> result, start |-> start, end |-> end]
Event(op, s) == Resp(op, s, "ok", 0, << >>)

\* gen that accepts the submission whatever the session's jobs are
Gen_NoBuildCheck(s) ==
    /\ JobsIn(Sessions) < MaxJobs
    /\ jobs' = [jobs EXCEPT ![s] = Append(@, "pending")]
    /\ resp' = Resp("gen", s, "pending", 0, << >>)
    /\ UNCHANGED <<runState, activeRange, sdrAlive, deviceHolder, clientVars>>

\* gen request: submit a Build Job.  TODO.md lists "During Run: Disable
\* Build" as open work: the run state is not looked at.
Gen(s) ==
    /\ IF ActiveJobs(s) # {}
       THEN /\ resp' = Resp("gen", s, "BuildInProgressError", 0, << >>)
            /\ UNCHANGED jobs
       ELSE /\ JobsIn(Sessions) < MaxJobs
            /\ jobs' = [jobs EXCEPT ![s] = Append(@, "pending")]
            /\ resp' = Resp("gen", s, "pending", 0, << >>)
    /\ UNCHANGED <<runState, activeRange, sdrAlive, deviceHolder, clientVars>>

\* the build task starts working on the pending job
BuildStart(s, j) ==
    /\ j \in 1 .. Len(jobs[s])
    /\ jobs[s][j] = "pending"
    /\ jobs' = [jobs EXCEPT ![s][j] = "running"]
    /\ resp' = Event("buildStart", s)
    /\ UNCHANGED <<runState, activeRange, sdrAlive, deviceHolder, clientVars>>

\* the integrator and the IQ tool end: completed, or failed on an exception
\* or a non-zero exit
BuildEnd(s, j, ok) ==
    /\ j \in 1 .. Len(jobs[s])
    /\ jobs[s][j] = "running"
    /\ jobs' = [jobs EXCEPT ![s][j] = IF ok THEN "completed" ELSE "failed"]
    /\ resp' = Event("buildEnd", s)
    /\ UNCHANGED <<runState, activeRange, sdrAlive, deviceHolder, clientVars>>

\* cancel that marks the job canceled whatever its status
Cancel_AnyStatus(s, j) ==
    /\ j \in 1 .. Len(jobs[s])
    /\ jobs' = [jobs EXCEPT ![s][j] = "canceled"]
    /\ resp' = Resp("cancel", s, "ok", 0, << >>)
    /\ UNCHANGED <<runState, activeRange, sdrAlive, deviceHolder, clientVars>>

\* cancel(job_id): a job that is not terminal becomes canceled
Cancel(s, j) ==
    /\ IF j \in ActiveJobs(s)
       THEN /\ jobs' = [jobs EXCEPT ![s][j] = "canceled"]
            /\ resp' = Resp("cancel", s, "ok", 0, << >>)
       ELSE /\ resp' = Resp("cancel", s, "NotFound", 0, << >>)
            /\ UNCHANGED jobs
    /\ UNCHANGED <<runState, activeRange, sdrAlive, deviceHolder, clientVars>>

\* Entering running: the range is set and the SDR transmitter is spawned
EnterRunning(s, start, end) ==
    /\ runState' = [runState EXCEPT ![s] = "running"]
    /\ activeRange' = [activeRange EXCEPT ![s] = Range(start, end)]
    /\ sdrAlive' = [sdrAlive EXCEPT ![s] = TRUE]

RunEnd(endSegIdx) == IF endSegIdx # << >> THEN endSegIdx[1] ELSE BuiltSegments - 1

\* run that does not look at the session's run state
Run_NoStateCheck(s, start, endSegIdx, future) ==
    /\ resp' = Resp("run", s, IF future THEN "waiting" ELSE "running", start, endSegIdx)
    /\ deviceHolder' = s
    /\ IF future
       THEN /\ runState' = [runState EXCEPT ![s] = "waiting"]
            /\ activeRange' = [activeRange EXCEPT ![s] = Range(start, RunEnd(endSegIdx))]
            /\ UNCHANGED sdrAlive
       ELSE EnterRunning(s, start, RunEnd(endSegIdx))
    /\ UNCHANGED <<jobs, clientVars>>

\* run that takes the device without looking at who holds it
Run_NoDeviceCheck(s, start, endSegIdx, future) ==
    LET end == RunEnd(endSegIdx)
        result ==
          IF runState[s] \notin {"idle", "stopped"} THEN "RunInProgressError"
          ELSE IF ~ HasCompletedJob(s) \/ start > end \/ end > BuiltSegments - 1
               THEN "InvalidRouteError"
          ELSE IF future THEN "waiting" ELSE "running"
    IN /\ resp' = Resp("run", s, result, start, endSegIdx)
       /\ CASE result = "running" ->
                 /\ EnterRunning(s, start, end)
                 /\ deviceHolder' = s
            [] result = "waiting" ->
                 /\ runState' = [runState EXCEPT ![s] = "waiting"]
                 /\ activeRange' = [activeRange EXCEPT ![s] = Range(start, end)]
                 /\ deviceHolder' = s
                 /\ UNCHANGED sdrAlive
            [] OTHER ->
                 UNCHANGED <<runState, activeRange, sdrAlive, deviceHolder>>
       /\ UNCHANGED <<jobs, clientVars>>

\* run(start_segment, end_segment?, start_time?)
Run(s, start, endSegIdx, future) ==
    LET end == RunEnd(endSegIdx)
        result ==
          IF runState[s] \notin {"idle", "stopped"} THEN "RunInProgressError"
          ELSE IF ~ HasCompletedJob(s) \/ start > end \/ end > BuiltSegments - 1
               THEN "InvalidRouteError"
          ELSE IF deviceHolder # "none" \/ (\E t \in Sessions : sdrAlive[t])
               THEN "DeviceBusyError"
          ELSE IF future THEN "waiting" ELSE "running"
    IN /\ resp' = Resp("run", s, result, start, endSegIdx)
       /\ CASE result = "running" ->
                 /\ EnterRunning(s, start, end)
                 /\ deviceHolder' = s
            [] result = "waiting" ->
                 /\ runState' = [runState EXCEPT ![s] = "waiting"]
                 /\ activeRange' = [activeRange EXCEPT ![s] = Range(start, end)]
                 /\ deviceHolder' = s
                 /\ UNCHANGED sdrAlive
            [] OTHER ->
                 UNCHANGED <<runState, activeRange, sdrAlive, deviceHolder>>
       /\ UNCHANGED <<jobs, clientVars>>

\* the start_time timer of a waiting run fires
TimerFires(s) ==
    /\ runState[s] = "waiting"
    /\ EnterRunning(s, activeRange[s].start, activeRange[s].end)
    /\ resp' = Event("timer", s)
    /\ UNCHANGED <<jobs, deviceHolder, clientVars>>

\* Cleanup of a run: the feed is halted, the range cleared, the device lock
\* given back and the SDR subprocess told to terminate.  TODO.md records
\* "Stop Run -> Re-run shows no device; possible cause: hackrf_transfer not
\* fully stopped when stopping Run": the cleanup does not wait for the
\* subprocess to exit.
Cleanup(s, state) ==
    /\ runState' = [runState EXCEPT ![s] = state]
    /\ activeRange' = [activeRange EXCEPT ![s] = NoRange]
    /\ deviceHolder' = IF deviceHolder = s THEN "none" ELSE deviceHolder
    /\ UNCHANGED sdrAlive

\* stop()
Stop(s) ==
    /\ IF runState[s] \in {"waiting", "running"}
       THEN /\ Cleanup(s, "stopped")
            /\ resp' = Resp("stop", s, "stopped", 0, << >>)
       ELSE /\ resp' = Resp("stop", s, runState[s], 0, << >>)
            /\ UNCHANGED <<runState, activeRange, sdrAlive, deviceHolder>>
    /\ UNCHANGED <<jobs, clientVars>>

\* natural completion: playback_t passes the last sample; cleanup as stop()
Complete(s) ==
    /\ runState[s] = "running"
    /\ Cleanup(s, "idle")
    /\ resp' = Event("complete", s)
    /\ UNCHANGED <<jobs, clientVars>>

\* a failure that leaves the run running with its range and its device
Failure_StaysRunning(s, kind) ==
    /\ runState[s] = "running"
    /\ sdrAlive[s]
    /\ sdrAlive' = [sdrAlive EXCEPT ![s] = (kind # "crash")]
    /\ resp' = Resp(kind, s, "error", 0, << >>)
    /\ UNCHANGED <<jobs, runState, activeRange, deviceHolder, clientVars>>

\* A failure during running, fatal for the run: the SDR subprocess crashes
\* ("crash") or a serial write fails ("serialError").  Full teardown: the
\* subprocess is gone, the range cleared, the device given back, the state
\* stopped, and a status of stage "error" goes out on Telemetry.
Failure(s, kind) ==
    /\ runState[s] = "running"
    /\ sdrAlive[s]
    /\ runState' = [runState EXCEPT ![s] = "stopped"]
    /\ activeRange' = [activeRange EXCEPT ![s] = NoRange]
    /\ deviceHolder' = IF deviceHolder = s THEN "none" ELSE deviceHolder
    /\ sdrAlive' = [sdrAlive EXCEPT ![s] = FALSE]
    /\ resp' = Resp(kind, s, "error", 0, << >>)
    /\ UNCHANGED <<jobs, clientVars>>

FailureKinds == { "crash", "serialError" }

\* a subprocess that was told to terminate exits
SdrExit(s) ==
    /\ sdrAlive[s]
    /\ runState[s] # "running"
    /\ sdrAlive' = [sdrAlive EXCEPT ![s] = FALSE]
    /\ resp' = Event("sdrExit", s)
    /\ UNCHANGED <<jobs, runState, activeRange, deviceHolder, clientVars>>

NextSession ==
    \/ \E s \in Sessions : Gen(s)
    \/ \E s \in Sessions, j \in 1 .. MaxJobs : BuildStart(s, j)
    \/ \E s \in Sessions, j \in 1 .. MaxJobs, ok \in BOOLEAN : BuildEnd(s, j, ok)
    \/ \E s \in Sessions, j \in 1 .. MaxJobs : Cancel(s, j)
    \/ \E s \in Sessions, start \in StartArgs, e \in EndArgs, future \in BOOLEAN :
          Run(s, start, e, future)
    \/ \E s \in Sessions : TimerFires(s)
    \/ \E s \in Sessions : Stop(s)
    \/ \E s \in Sessions : Complete(s)
    \/ \E s \in Sessions, kind \in FailureKinds : Failure(s, kind)
    \/ \E s \in Sessions : SdrExit(s)

SpecSession == Init /\ [][NextSession]_vars

C8_TeardownOrdering ==
    /\ \A s \in Sessions : runState[s] \in {"idle", "stopped"} => ~ sdrAlive[s]
    /\ ~ ( /\ resp.op = "run"
           /\ resp.result = "DeviceBusyError"
           /\ sdrAlive[resp.session] )

\* C9: each session has at most one Build Job pending or running, and a gen
\* request made while one is pending or running is answered
\* BuildInProgressError and creates no job.
C9_OneActiveBuildJob ==
    /\ [](\A s \in Sessions : Cardinality(ActiveJobs(s)) <= 1)
    /\ [][ (resp'.op = "gen" /\ ActiveJobs(resp'.session) # {})
           => (resp'.result = "BuildInProgressError" /\ jobs' = jobs) ]_vars

\* C9 witness: the second gen of a session was refused while its first job
\* was running, and the other session has a job of its own
C9_Witness_SecondGenRefused ==
    /\ resp.op = "gen"
    /\ resp.result = "BuildInProgressError"
    /\ jobs[resp.session] = << "running" >>
    /\ \E t \in Sessions \ {resp.session} : ActiveJobs(t) # {}

\* C10: a gen request made while the session's Run is running is answered
\* RunActiveError and starts no build.
C10_GenDuringRunRejected ==
    [][ (resp'.op = "gen" /\ runState[resp'.session] = "running")
        => (resp'.result = "RunActiveError" /\ jobs' = jobs) ]_vars

\* C11: a Build Job that is completed, failed or canceled keeps its status
\* in every step; a cancel of it is answered NotFound and changes no job;
\* and an accepted gen appends a new job, leaving every earlier job as it is.
C11_TerminalJobsAreFinal ==
    [][ /\ \A s \in Sessions : \A j \in 1 .. Len(jobs[s]) :
             jobs[s][j] \in TerminalStatus =>
                (Len(jobs'[s]) >= j /\ jobs'[s][j] = jobs[s][j])
        /\ (resp'.op = "cancel" /\ ActiveJobs(resp'.session) = {}) =>
              (resp'.result = "NotFound" /\ jobs' = jobs)
        /\ (resp'.op = "gen" /\ resp'.result = "pending") =>
              /\ Len(jobs'[resp'.session]) = Len(jobs[resp'.session]) + 1
              /\ SubSeq(jobs'[resp'.session], 1, Len(jobs[resp'.session]))
                    = jobs[resp'.session]
      ]_vars

\* C11 witness: a session whose first job was canceled has got a second job
\* from a later gen
C11_Witness_NewJobAfterTerminal ==
    /\ resp.op = "gen"
    /\ resp.result = "pending"
    /\ jobs[resp.session] = << "canceled", "pending" >>

RunningOrWaiting == { s \in Sessions : runState[s] \in {"waiting", "running"} }

\* C12: at most one session has a run waiting or running, that session is
\* the holder of the device lock, at most one SDR subprocess is alive; and a
\* run request of a session made while another session holds the device is
\* refused and changes nothing.
C12_SingleDeviceHolder ==
    /\ [](/\ Cardinality(RunningOrWaiting) <= 1
          /\ \A s \in RunningOrWaiting : deviceHolder = s
          /\ Cardinality({ s \in Sessions : sdrAlive[s] }) <= 1)
    /\ [][ (resp'.op = "run" /\ deviceHolder \notin {"none", resp'.session}) =>
              /\ resp'.result \in {"DeviceBusyError", "InvalidRouteError"}
              /\ UNCHANGED <<runState, activeRange, sdrAlive, deviceHolder>>
         ]_vars

\* C12 witness: a session with a completed build asked to run while the
\* other session was running, and got DeviceBusyError
C12_Witness_SecondSessionRefused ==
    /\ resp.op = "run"
    /\ resp.result = "DeviceBusyError"
    /\ deviceHolder \notin {"none", resp.session}
    /\ runState[deviceHolder] = "running"

\* C13: a subprocess crash or a serial I/O error during running ends the
\* run: afterwards its subprocess is gone, its range cleared, it holds no
\* device, its state is stopped and an error status was emitted.
C13_FailureEndsRun ==
    [][ resp'.op \in FailureKinds =>
          /\ runState[resp'.session] = "running"
          /\ runState'[resp'.session] = "stopped"
          /\ activeRange'[resp'.session] = NoRange
          /\ ~ sdrAlive'[resp'.session]
          /\ deviceHolder' # resp'.session
          /\ resp'.result = "error"
      ]_vars

\* C13 witness: a serial I/O error ended a run over segment 1, and the
\* session can run again
C13_Witness_SerialError ==
    /\ resp.op = "serialError"
    /\ runState[resp.session] = "stopped"
    /\ deviceHolder = "none"
    /\ \A t \in Sessions : ~ sdrAlive[t]

----------------------------------------------------------------------------
(* The live App (src/unnamed/part_009): the App component that keeps the    *)
(* route on a back end over HTTP and follows the simulation over a          *)
(* WebSocket.  Each async handler is cut at its awaits; the back end's side *)
(* of a request is a step of its own between two of them.                   *)

MaxSockets == 2         \* WebSocket connections opened
MaxInbox == 2           \* state messages queued for one subscriber
MaxRuns == 2            \* runs the back end starts

\* where onAddWaypoint puts a waypoint: routes of the live App differ by length
LivePositions == { [lat |-> 0, lon |-> 2] }

NoCall == [pc |-> "none", start |-> 0, body |-> << >>]
NoFetch == [pc |-> "none", data |-> << >>]
EndStates == { "idle", "stopped" }

restVars == <<mode, pendingRoute, savedDoc, savedFrom, showClearConfirm, last,
              sessionVars, mapVars>>

\* watch(() => route.value, debouncedSync, { deep: true }): a change of the
\* route clears syncTimeout and sets it again
debouncedSync(r) ==
    syncTimer' = IF r # route THEN TRUE ELSE syncTimer

\* Telemetry Broadcaster: a state message goes to the subscriber if it is
\* connected, and the oldest queued one is dropped when its queue is full
Publish(st, run) ==
    LET msg == [state |-> st, run |-> run]
    IN IF sock # "open" THEN inbox
       ELSE IF Len(inbox) < MaxInbox THEN Append(inbox, msg)
       ELSE Append(Tail(inbox), msg)

\* connectWs: nothing before the map is ready, else a new WebSocket
connectWs ==
    IF ~ isMapReady'
    THEN UNCHANGED <<ws, sock, opened, inbox>>
    ELSE /\ ws' = "socket"
         /\ sock' = "open"
         /\ opened' = opened + 1
         /\ inbox' = << >>

\* handleMapReady: loadRouteFromBackend, fetchSimState and connectWs start
HandleMapReadyLive ==
    /\ mounted
    /\ ~ isMapReady
    /\ isMapReady' = TRUE
    /\ routeFetch' = [pc |-> "sent", data |-> << >>]
    /\ statusFetch' = "sent"
    /\ connectWs
    /\ UNCHANGED <<route, simState, mounted, timer, backendVars, call, stopCall,
                   endSeenRun, syncVars, restVars>>

\* GET /sim/status answered by the back end
BackendStatus ==
    /\ statusFetch = "sent"
    /\ statusFetch' = beState
    /\ UNCHANGED <<route, simState, isMapReady, connVars, backendVars, inbox, call,
                   stopCall, endSeenRun, routeFetch, syncVars, restVars>>

\* fetchSimState after its awaits: simState.value = data.state
FetchSimStateDone ==
    /\ statusFetch \notin {"none", "sent"}
    /\ simState' = statusFetch
    /\ statusFetch' = "none"
    /\ UNCHANGED <<route, isMapReady, connVars, backendVars, inbox, call, stopCall,
                   endSeenRun, routeFetch, syncVars, restVars>>

\* GET /route answered by the back end: 404 when it has no active route
BackendGetRoute ==
    /\ routeFetch.pc = "sent"
    /\ routeFetch' = IF beRoute = << >> THEN [pc |-> "404", data |-> << >>]
                     ELSE [pc |-> "ok", data |-> beRoute[1]]
    /\ UNCHANGED <<route, simState, isMapReady, connVars, backendVars, inbox, call,
                   stopCall, endSeenRun, statusFetch, syncVars, restVars>>

\* loadRouteFromBackend after its awaits: on 404 nothing, else handleLoadRoute
\* makes a new Route of the waypoints and goes to view mode
LoadRouteFromBackendDone ==
    /\ routeFetch.pc \in {"404", "ok"}
    /\ LET newRoute == IF routeFetch.pc = "ok"
                       THEN AddWaypoints(NewRoute, routeFetch.data)
                       ELSE route
       IN /\ route' = newRoute
          /\ debouncedSync(newRoute)
    /\ mode' = "view"
    /\ routeFetch' = NoFetch
    /\ UNCHANGED <<simState, isMapReady, connVars, backendVars, inbox, call, stopCall,
                   endSeenRun, statusFetch, bgPut, pendingRoute, savedDoc, savedFrom,
                   showClearConfirm, last, sessionVars, mapVars>>

\* a route mutation of the live App, with the watcher it triggers
Mutate(r) ==
    /\ mounted
    /\ route' = r
    /\ debouncedSync(r)
    /\ UNCHANGED <<simState, isMapReady, connVars, backendVars, inbox, call, stopCall,
                   endSeenRun, fetchVars, bgPut, restVars>>

\* onAddWaypoint, called by the map for a click in add mode
OnAddWaypointLive(pt) ==
    /\ isMapReady
    /\ Len(route.points) < MaxPoints
    /\ Mutate(addPoint(route, pt.lat, pt.lon))

\* onSelectSegment, called by the map for a click on a segment
OnSelectSegmentLive(idx) ==
    /\ isMapReady
    /\ Mutate(selectSegment(route, idx))

resetRoute ==
    /\ ~ ClearDisabled
    /\ Mutate(NewRoute)

\* syncRouteToBackend: no request for a route of fewer than two waypoints,
\* else the PUT /route body
SyncBody == IF Len(route.points) < 2 THEN << >> ELSE << Coords(route.points) >>

\* syncTimeout fires: syncRouteToBackend sends its PUT /route
SyncTimerFires ==
    /\ syncTimer
    /\ bgPut = << >>
    /\ syncTimer' = FALSE
    /\ bgPut' = SyncBody
    /\ UNCHANGED <<route, simState, isMapReady, connVars, backendVars, inbox, call,
                   stopCall, endSeenRun, fetchVars, restVars>>

\* the back end answers the debounced PUT /route, storing the route if ok;
\* syncRouteToBackend looks at neither the status nor a caught error
BackendSyncPut(ok) ==
    /\ bgPut # << >>
    /\ beRoute' = IF ok THEN bgPut ELSE beRoute
    /\ bgPut' = << >>
    /\ UNCHANGED <<route, simState, isMapReady, connVars, beState, beRun, inbox, call,
                   stopCall, endSeenRun, fetchVars, syncTimer, restVars>>

\* runSim up to its first await: the PUT /route of syncRouteToBackend is out
RunSimBegin ==
    /\ mounted
    /\ ~ RunDisabled
    /\ call.pc = "none"
    /\ beRun < MaxRuns
    /\ call' = IF Len(route.points) < 2 THEN NoCall
               ELSE [pc |-> "put", start |-> 0, body |-> SyncBody]
    /\ UNCHANGED <<route, simState, isMapReady, connVars, backendVars, inbox, stopCall,
                   endSeenRun, fetchVars, syncVars, restVars>>

\* runSimFromSegment up to its first await
RunSimFromSegmentBegin ==
    /\ mounted
    /\ ~ RunFromSegmentDisabled
    /\ call.pc = "none"
    /\ beRun < MaxRuns
    /\ LET selectedIdx == findIndexSelected(route.segments)
       IN call' = IF selectedIdx < 0 THEN NoCall
                  ELSE IF SyncBody = << >>
                       THEN [pc |-> "putDone", start |-> selectedIdx, body |-> << >>]
                  ELSE [pc |-> "put", start |-> selectedIdx, body |-> SyncBody]
    /\ UNCHANGED <<route, simState, isMapReady, connVars, backendVars, inbox, stopCall,
                   endSeenRun, fetchVars, syncVars, restVars>>

\* the back end answers the PUT /route of a run, storing the route if ok
BackendPutRoute(ok) ==
    /\ call.pc = "put"
    /\ beRoute' = IF ok THEN call.body ELSE beRoute
    /\ call' = [call EXCEPT !.pc = "putDone", !.body = << >>]
    /\ UNCHANGED <<route, simState, isMapReady, connVars, beState, beRun, inbox,
                   stopCall, endSeenRun, fetchVars, syncVars, restVars>>

\* runSim / runSimFromSegment after `await syncRouteToBackend()`: POST /sim/run
RunSimAfterSync ==
    /\ call.pc = "putDone"
    /\ call' = [call EXCEPT !.pc = "post"]
    /\ UNCHANGED <<route, simState, isMapReady, connVars, backendVars, inbox, stopCall,
                   endSeenRun, fetchVars, syncVars, restVars>>

\* the back end answers POST /sim/run: an error while a run is on or when its
\* route lacks the start segment, else the run starts and its state goes out
BackendRunRequest ==
    /\ call.pc = "post"
    /\ IF \/ beState = "running"
          \/ beRoute = << >>
          \/ call.start > Len(beRoute[1]) - 2
       THEN /\ call' = [call EXCEPT !.pc = "postErr"]
            /\ UNCHANGED <<backendVars, inbox>>
       ELSE /\ call' = [call EXCEPT !.pc = "postOk"]
            /\ beState' = "running"
            /\ beRun' = beRun + 1
            /\ inbox' = Publish("running", beRun + 1)
            /\ UNCHANGED beRoute
    /\ UNCHANGED <<route, simState, isMapReady, connVars, stopCall, endSeenRun,
                   fetchVars, syncVars, restVars>>

\* runSim / runSimFromSegment after the POST's awaits: on an error an alert,
\* else simState from the response and startSimulation(start, null)
RunSimAfterPost ==
    /\ call.pc \in {"postOk", "postErr"}
    /\ IF call.pc = "postOk"
       THEN LET r == startSimulation(route, call.start, << >>)
            IN /\ simState' = "running"
               /\ route' = r
               /\ debouncedSync(r)
       ELSE UNCHANGED <<route, simState, syncTimer>>
    /\ call' = NoCall
    /\ UNCHANGED <<isMapReady, connVars, backendVars, inbox, stopCall, endSeenRun,
                   fetchVars, bgPut, restVars>>

\* stopSim up to its await: POST /sim/stop is out
StopSimBegin ==
    /\ mounted
    /\ ~ StopDisabled
    /\ stopCall = "none"
    /\ stopCall' = "sent"
    /\ UNCHANGED <<route, simState, isMapReady, connVars, backendVars, inbox, call,
                   endSeenRun, fetchVars, syncVars, restVars>>

\* the back end answers POST /sim/stop: a run that is on is stopped and its
\* state goes out; the response carries the state
BackendStopRequest ==
    /\ stopCall = "sent"
    /\ IF beState = "running"
       THEN /\ beState' = "stopped"
            /\ inbox' = Publish("stopped", beRun)
            /\ stopCall' = "stopped"
       ELSE /\ stopCall' = beState
            /\ UNCHANGED <<beState, inbox>>
    /\ UNCHANGED <<route, simState, isMapReady, connVars, beRoute, beRun, call,
                   endSeenRun, fetchVars, syncVars, restVars>>

\* stopSim after its awaits: simState from the response and stopSimulation()
StopSimAfterPost ==
    /\ stopCall \notin {"none", "sent"}
    /\ simState' = stopCall
    /\ LET r == stopSimulation(route)
       IN /\ route' = r
          /\ debouncedSync(r)
    /\ stopCall' = "none"
    /\ UNCHANGED <<isMapReady, connVars, backendVars, inbox, call, endSeenRun,
                   fetchVars, bgPut, restVars>>

\* the run ends at the back end by itself: completion (idle) or failure
\* (stopped); its state goes out
BackendRunEnds(st) ==
    /\ beState = "running"
    /\ beState' = st
    /\ inbox' = Publish(st, beRun)
    /\ UNCHANGED <<route, simState, isMapReady, connVars, beRoute, beRun, call,
                   stopCall, endSeenRun, fetchVars, syncVars, restVars>>

\* ws.onmessage for a message of type 'state'
WsOnMessage ==
    /\ sock = "open"
    /\ inbox # << >>
    /\ LET data == Head(inbox)
           oldState == simState
           r == IF oldState \in {"running", "paused"} /\ data.state \in EndStates
                THEN stopSimulation(route)
                ELSE route
       IN /\ simState' = data.state
          /\ route' = r
          /\ debouncedSync(r)
          /\ endSeenRun' = IF data.state \in EndStates THEN data.run ELSE endSeenRun
    /\ inbox' = Tail(inbox)
    /\ UNCHANGED <<isMapReady, connVars, backendVars, call, stopCall, fetchVars, bgPut,
                   restVars>>

\* the connection is lost: what was queued on it is never delivered
WsDrops ==
    /\ sock = "open"
    /\ sock' = "closing"
    /\ inbox' = << >>
    /\ UNCHANGED <<route, simState, isMapReady, mounted, ws, timer, opened,
                   backendVars, call, stopCall, endSeenRun, fetchVars, syncVars,
                   restVars>>

\* ws.onclose: setTimeout(connectWs, 1000)
WsOnClose ==
    /\ sock = "closing"
    /\ sock' = "closed"
    /\ timer' = TRUE
    /\ UNCHANGED <<route, simState, isMapReady, mounted, ws, opened, backendVars,
                   inbox, call, stopCall, endSeenRun, fetchVars, syncVars, restVars>>

\* the reconnect timer fires: connectWs
ReconnectTimerFires ==
    /\ timer
    /\ opened < MaxSockets
    /\ timer' = FALSE
    /\ UNCHANGED isMapReady
    /\ connectWs
    /\ UNCHANGED <<route, simState, mounted, backendVars, call, stopCall, endSeenRun,
                   fetchVars, syncVars, restVars>>

\* onUnmounted: if (ws) { ws.close(); ws = null }
OnUnmounted ==
    /\ mounted
    /\ mounted' = FALSE
    /\ IF ws # "null"
       THEN /\ sock' = IF sock = "open" THEN "closing" ELSE sock
            /\ inbox' = << >>
            /\ ws' = "null"
       ELSE UNCHANGED <<ws, sock, inbox>>
    /\ UNCHANGED <<route, simState, isMapReady, timer, opened, backendVars, call,
                   stopCall, endSeenRun, fetchVars, syncVars, restVars>>

\* the live App following a run: map ready, route building, run, stop, the
\* WebSocket and its reconnects
NextLive ==
    \/ HandleMapReadyLive
    \/ BackendStatus
    \/ FetchSimStateDone
    \/ \E pt \in LivePositions : OnAddWaypointLive(pt)
    \/ RunSimBegin
    \/ \E ok \in BOOLEAN : BackendPutRoute(ok)
    \/ RunSimAfterSync
    \/ BackendRunRequest
    \/ RunSimAfterPost
    \/ StopSimBegin
    \/ BackendStopRequest
    \/ StopSimAfterPost
    \/ \E st \in EndStates : BackendRunEnds(st)
    \/ WsOnMessage
    \/ WsDrops
    \/ WsOnClose
    \/ ReconnectTimerFires
    \/ OnUnmounted

SpecLive == Init /\ [][NextLive]_vars

\* the live App keeping the back end's route: loading it, editing, the
\* debounced sync and the sync of a run
NextSync ==
    \/ HandleMapReadyLive
    \/ BackendGetRoute
    \/ LoadRouteFromBackendDone
    \/ \E pt \in LivePositions : OnAddWaypointLive(pt)
    \/ \E idx \in SegmentIdx : OnSelectSegmentLive(idx)
    \/ resetRoute
    \/ SyncTimerFires
    \/ \E ok \in BOOLEAN : BackendSyncPut(ok)
    \/ RunSimBegin
    \/ RunSimFromSegmentBegin
    \/ \E ok \in BOOLEAN : BackendPutRoute(ok)
    \/ RunSimAfterSync
    \/ BackendRunRequest
    \/ RunSimAfterPost
    \/ StopSimBegin
    \/ BackendStopRequest
    \/ StopSimAfterPost

SpecSync == Init /\ [][NextSync]_vars

\* C15: once onmessage has handled the state message idle or stopped that
\* ends the back end's latest run, the route holds no simulation range, and
\* none is set before the back end starts another run; under every order of
\* the POST /sim/run response and the state messages, missed messages
\* included.
C15_LocksClearedAfterEndReport ==
    (beRun > 0 /\ endSeenRun = beRun) => ~ route.simulatingSegmentRange.active

\* C16: once the App component is unmounted, no WebSocket connection is
\* opened any more.
C16_NoConnectionAfterUnmount ==
    [][ ~ mounted => opened' = opened ]_vars

\* C17: at the step that sends POST /sim/run, the route the back end holds
\* is the route shown: its waypoints are the current waypoints.
C17_RunOnSyncedRoute ==
    [][ (call.pc # "post" /\ call'.pc = "post") =>
           beRoute = << Coords(route.points) >> ]_vars

----------------------------------------------------------------------------
(* SpecPool: a useMapObjectPool instance driven through its interface *)

MaxHandlers == 2        \* listeners added to one object

PoolMarkerIds == { <<"waypoint", 0>>, <<"preview", 0>> }
PoolLineIds == { <<"segment", 0>> }
EventNames == { "tap", "pointerdown" }
PoolGeometry == [lat |-> 0, lng |-> 2]
PoolCoordinates == << [lat |-> 0, lng |-> 2], [lat |-> 2, lng |-> 0] >>

PoolCall(op, ids, p) ==
    /\ pool' = p
    /\ poolOp' = [op |-> op, ids |-> ids, live |-> mapValue,
                  had |-> { id \in ids : pool.listeners[id] # << >> }]
    /\ UNCHANGED <<frontVars, sessionVars, liveVars, lockHist, mapValue, lastSegmentCount,
                   lastWaypointCount, lastRouteRenderTime, ticks, dragState, dragOp, behavior>>

\* MapView onMounted: map.value = new H.Map(..)
MapCreated ==
    /\ ~ mapValue
    /\ pool.onMap = {}
    /\ mapValue' = TRUE
    /\ behavior' = "enabled"
    /\ UNCHANGED <<frontVars, sessionVars, liveVars, lockHist, pool, lastSegmentCount,
                   lastWaypointCount, lastRouteRenderTime, ticks, dragState, poolOp, dragOp>>

\* MapView onUnmounted: behavior.value = null, map.value = null
MapDisposed ==
    /\ mapValue
    /\ mapValue' = FALSE
    /\ behavior' = "null"
    /\ UNCHANGED <<frontVars, sessionVars, liveVars, lockHist, pool, lastSegmentCount,
                   lastWaypointCount, lastRouteRenderTime, ticks, dragState, poolOp, dragOp>>

PoolCreateMarker(id) ==
    PoolCall("createMarker", {id}, createMarker(pool, mapValue, id, PoolGeometry))

PoolRemoveMarker(id) ==
    PoolCall("removeMarker", {id}, removeMarker(pool, mapValue, id))

PoolAddMarkerEvent(id, eventName) ==
    /\ Len(pool.listeners[id]) < MaxHandlers
    /\ PoolCall("addMarkerEvent", {id}, addMarkerEvent(pool, id, eventName))

PoolCreateLine(id) ==
    PoolCall("createLine", {id}, createLine(pool, mapValue, id, PoolCoordinates))

PoolRemoveLine(id) ==
    PoolCall("removeLine", {id}, removeLine(pool, mapValue, id))

PoolAddLineEvent(id, eventName) ==
    /\ Len(pool.listeners[id]) < MaxHandlers
    /\ PoolCall("addLineEvent", {id}, addLineEvent(pool, id, eventName))

PoolCleanup ==
    PoolCall("cleanup",
             { id \in MarkerIds : hasMarker(pool, id) }
                \cup { id \in LineIds : hasLine(pool, id) },
             cleanup(pool, mapValue))

NextPool ==
    \/ MapCreated
    \/ MapDisposed
    \/ \E id \in PoolMarkerIds : PoolCreateMarker(id)
    \/ \E id \in PoolMarkerIds : PoolRemoveMarker(id)
    \/ \E id \in PoolMarkerIds, e \in EventNames : PoolAddMarkerEvent(id, e)
    \/ \E id \in PoolLineIds : PoolCreateLine(id)
    \/ \E id \in PoolLineIds : PoolRemoveLine(id)
    \/ \E id \in PoolLineIds, e \in EventNames : PoolAddLineEvent(id, e)
    \/ PoolCleanup

SpecPool == Init /\ [][NextPool]_vars

InPool(id) ==
    IF id \in MarkerIds THEN hasMarker(pool, id) ELSE hasLine(pool, id)

\* C19: handlers are recorded only for ids that have a marker or a line in
\* the pool; an object the pool does not hold has none of the listeners
\* added through the pool and is not on the map; and after removeMarker,
\* removeLine or cleanup called on a live map the objects named are out of
\* the pool.
C19_NoListenerLeak ==
    /\ \A id \in MarkerIds : pool.markerHandlers[id] # << >> => hasMarker(pool, id)
    /\ \A id \in LineIds : pool.lineHandlers[id] # << >> => hasLine(pool, id)
    /\ \A id \in MarkerIds \cup LineIds :
          ~ InPool(id) => (pool.listeners[id] = << >> /\ id \notin pool.onMap)
    /\ (poolOp.op \in {"removeMarker", "removeLine", "cleanup"} /\ poolOp.live) =>
          \A id \in poolOp.ids : ~ InPool(id)

\* C19 witness: cleanup on a live map has just removed two markers and a
\* line, each of which had listeners
C19_Witness_CleanedUp ==
    /\ poolOp.op = "cleanup"
    /\ poolOp.live
    /\ Cardinality(poolOp.had) = 3

----------------------------------------------------------------------------
(* SpecRender: useRouteRenderer.ts, the renderer's pool and the clock *)

MaxTicks == 3           \* steps of the clock

ROUTE_RENDER_THROTTLE_MS == 100

\* Date.now(): the clock goes in steps of 50 ms and starts late enough for
\* the first renderRoute to pass the throttle
DateNow == (ticks + 2) * 50

SegmentLineIds(n) ==
    { <<"segment", i>> : i \in 0 .. n - 1 } \cup { <<"segment-border", i>> : i \in 0 .. n - 1 }

SegmentCoordinates(r, idx) ==
    LET segment == At0(r.segments, idx)
        from == At0(r.points, segment.from)
        to == At0(r.points, segment.to)
    IN << [lat |-> from.lat, lng |-> from.lon], [lat |-> to.lat, lng |-> to.lon] >>

\* route.value.segments.forEach((segment, idx) => ..) of renderRouteInternal,
\* from segment idx on
RECURSIVE createSegmentLines(_, _, _, _)
createSegmentLines(p, m, r, idx) ==
    IF idx >= Len(r.segments) THEN p
    ELSE LET coordinates == SegmentCoordinates(r, idx)
             bordered == IF At0(r.segments, idx).isSelected
                         THEN createLine(p, m, <<"segment-border", idx>>, coordinates)
                         ELSE p
             lined == createLine(bordered, m, <<"segment", idx>>, coordinates)
         IN createSegmentLines(addLineEvent(lined, <<"segment", idx>>, "tap"), m, r, idx + 1)

\* renderRouteInternal: the new pool and counts
renderRouteInternal(p, m, r, lsc, lwc) ==
    LET cleared == removeLines(p, m, SegmentLineIds(lsc))
    IN IF ~ m \/ Len(r.points) < 2
       THEN [pool |-> cleared, lastSegmentCount |-> 0, lastWaypointCount |-> lwc]
       ELSE [pool |-> createSegmentLines(cleared, m, r, 0),
             lastSegmentCount |-> Len(r.segments),
             lastWaypointCount |-> Len(r.points)]

\* route.value.points.forEach((point, idx) => ..) of renderWaypoints, from
\* point idx on
RECURSIVE createWaypointMarkers(_, _, _, _)
createWaypointMarkers(p, m, r, idx) ==
    IF idx >= Len(r.points) THEN p
    ELSE LET point == At0(r.points, idx)
             markerId == <<"waypoint", idx>>
             made == createMarker(p, m, markerId, [lat |-> point.lat, lng |-> point.lon])
             tap == addMarkerEvent(made, markerId, "tap")
             down == addMarkerEvent(tap, markerId, "pointerdown")
             enter == addMarkerEvent(down, markerId, "pointerenter")
         IN createWaypointMarkers(addMarkerEvent(enter, markerId, "pointerleave"),
                                  m, r, idx + 1)

renderWaypoints(p, m, r, lwc) ==
    IF ~ m THEN p
    ELSE LET maxToRemove == IF lwc > Len(r.points) THEN lwc ELSE Len(r.points)
             old == { id \in { <<"waypoint", i>> : i \in 0 .. maxToRemove - 1 } :
                        hasMarker(p, id) }
         IN createWaypointMarkers(removeMarkers(p, m, old), m, r, 0)

\* renderWaypoints() then the throttled renderRoute(), for route r and
\* map.value m
Render(r, m) ==
    LET marked == renderWaypoints(pool, m, r, lastWaypointCount)
        now == DateNow
    IN IF now - lastRouteRenderTime < ROUTE_RENDER_THROTTLE_MS
       THEN /\ pool' = marked
            /\ UNCHANGED <<lastSegmentCount, lastWaypointCount, lastRouteRenderTime>>
       ELSE LET res == renderRouteInternal(marked, m, r, lastSegmentCount,
                                           lastWaypointCount)
            IN /\ lastRouteRenderTime' = now
               /\ pool' = res.pool
               /\ lastSegmentCount' = res.lastSegmentCount
               /\ lastWaypointCount' = res.lastWaypointCount

\* a change of the route and the watcher of useRouteRenderer it triggers
RouteChanges(r) ==
    /\ r # route
    /\ route' = r
    /\ last' = NoFileOp
    /\ Render(r, mapValue)
    /\ UNCHANGED <<simState, mode, isMapReady, pendingRoute, savedDoc, savedFrom,
                   showClearConfirm, sessionVars, liveVars, lockHist, mapValue, ticks, dragState,
                   poolOp, dragOp, behavior>>

\* MapView onMounted: the map is made, and the initial render
MapViewMounted ==
    /\ ~ mapValue
    /\ mapValue' = TRUE
    /\ Render(route, TRUE)
    /\ behavior' = "enabled"
    /\ UNCHANGED <<frontVars, sessionVars, liveVars, lockHist, ticks, dragState, poolOp, dragOp>>

ClockTick ==
    /\ ticks < MaxTicks
    /\ ticks' = ticks + 1
    /\ UNCHANGED <<frontVars, sessionVars, liveVars, lockHist, mapValue, pool, lastSegmentCount,
                   lastWaypointCount, lastRouteRenderTime, dragState, poolOp, dragOp,
                   behavior>>

\* onAddWaypoint, onMoveWaypoint, deletePoint of the selected waypoint and
\* onSelectSegment, each with the watcher's render
AddPointRendered(p) ==
    /\ Len(route.points) < MaxPoints
    /\ RouteChanges(addPoint(route, p.lat, p.lon))

MovePointRendered(idx, p) == RouteChanges(movePoint(route, idx, p.lat, p.lon))

DeletePointRendered(idx) == RouteChanges(deletePoint(route, idx))

SelectSegmentRendered(idx) == RouteChanges(selectSegment(route, idx))

NextRender ==
    \/ MapViewMounted
    \/ ClockTick
    \/ \E p \in Positions : AddPointRendered(p)
    \/ \E idx \in PointIdx, p \in Positions : MovePointRendered(idx, p)
    \/ \E idx \in PointIdx : DeletePointRendered(idx)
    \/ \E idx \in SegmentIdx : SelectSegmentRendered(idx)

SpecRender == Init /\ [][NextRender]_vars

\* one line 'segment-i' per segment i of the route, with its endpoints
LinesMatchRoute ==
    \A i \in 0 .. MaxPoints - 2 :
        pool.lines[<<"segment", i>>] =
            IF i < Len(route.segments) THEN << SegmentCoordinates(route, i) >> ELSE << >>

\* C18: with the map there, every change of the route leaves the renderer's
\* segment lines matching the route's segments, however soon it follows the
\* change before it.
C18_LinesFollowRoute ==
    [][ (route' # route /\ mapValue') => LinesMatchRoute' ]_vars

----------------------------------------------------------------------------
(* SpecEditor: useMapEditor's drag (useMapObjectPool.ts 469-613) with the   *)
(* App's handlers that select, add, delete, run and stop; `pool` is the     *)
(* editor's pool                                                            *)

NoDrag == [isDragging |-> FALSE, pointIndex |-> -1, startPosition |-> << >>]

\* startDrag's two early returns: FALSE when it returns before the drag starts
startDragPasses(r, pointIndex) ==
    IF ~ (pointIndex >= 0 /\ pointIndex < Len(r.points)
            /\ At0(r.points, pointIndex).isSelected)
    THEN FALSE
    ELSE ~ isPointLocked(r, pointIndex)

\* startDrag: the new dragState
startDrag(d, r, pointIndex, lat, lng) ==
    IF ~ startDragPasses(r, pointIndex) THEN d
    ELSE [isDragging |-> TRUE, pointIndex |-> pointIndex,
          startPosition |-> << [lat |-> lat, lng |-> lng] >>]

\* behavior.value.disable() / enable(), skipped when behavior.value is null
disable(b) == IF b # "null" THEN "disabled" ELSE b
enable(b) == IF b # "null" THEN "enabled" ELSE b

\* updateDrag while dragging: the preview lines to the previous and the next
\* waypoint
\* updateDrag without its first line, the return when no drag is in progress
updateDrag_NoDraggingCheck(p, m, d, r, lat, lng) ==
    LET idx == d.pointIndex
        here == [lat |-> lat, lng |-> lng]
        at(i) == [lat |-> At0(r.points, i).lat, lng |-> At0(r.points, i).lon]
        prev == IF idx > 0 /\ idx - 1 < Len(r.points)
                THEN IF ~ hasLine(p, <<"drag-prev", 0>>)
                     THEN createLine(p, m, <<"drag-prev", 0>>, << at(idx - 1), here >>)
                     ELSE updateLine(p, m, <<"drag-prev", 0>>, << at(idx - 1), here >>)
                ELSE removeLine(p, m, <<"drag-prev", 0>>)
    IN IF idx < Len(r.points) - 1
       THEN IF ~ hasLine(prev, <<"drag-next", 0>>)
            THEN createLine(prev, m, <<"drag-next", 0>>, << here, at(idx + 1) >>)
            ELSE updateLine(prev, m, <<"drag-next", 0>>, << here, at(idx + 1) >>)
       ELSE removeLine(prev, m, <<"drag-next", 0>>)

updateDrag(p, m, d, r, lat, lng) ==
    IF ~ d.isDragging THEN p ELSE
    LET idx == d.pointIndex
        here == [lat |-> lat, lng |-> lng]
        at(i) == [lat |-> At0(r.points, i).lat, lng |-> At0(r.points, i).lon]
        prev == IF idx > 0 /\ idx - 1 < Len(r.points)
                THEN IF ~ hasLine(p, <<"drag-prev", 0>>)
                     THEN createLine(p, m, <<"drag-prev", 0>>, << at(idx - 1), here >>)
                     ELSE updateLine(p, m, <<"drag-prev", 0>>, << at(idx - 1), here >>)
                ELSE removeLine(p, m, <<"drag-prev", 0>>)
    IN IF idx < Len(r.points) - 1
       THEN IF ~ hasLine(prev, <<"drag-next", 0>>)
            THEN createLine(prev, m, <<"drag-next", 0>>, << here, at(idx + 1) >>)
            ELSE updateLine(prev, m, <<"drag-next", 0>>, << here, at(idx + 1) >>)
       ELSE removeLine(prev, m, <<"drag-next", 0>>)

DragCall(op, idx, r) ==
    dragOp' = [op |-> op, pointIndex |-> idx,
               locked |-> (idx >= 0 /\ idx < Len(route.points) /\ isPointLocked(route, idx)),
               moved |-> (r # route)]

\* the marker's pointerdown handler: startDrag(idx, point.lat, point.lon)
StartDrag(idx) ==
    /\ mapValue
    /\ dragState' = startDrag(dragState, route, idx, At0(route.points, idx).lat,
                              At0(route.points, idx).lon)
    /\ behavior' = IF startDragPasses(route, idx) THEN disable(behavior) ELSE behavior
    /\ DragCall("startDrag", idx, route)
    /\ UNCHANGED <<frontVars, sessionVars, liveVars, lockHist, mapValue, pool, lastSegmentCount,
                   lastWaypointCount, lastRouteRenderTime, ticks, poolOp>>

\* a call of updateDrag that the throttle lets through, during a drag or
\* after it
UpdateDrag(pt) ==
    /\ mapValue
    /\ pool' = updateDrag(pool, mapValue, dragState, route, pt.lat, pt.lon)
    /\ DragCall("updateDrag", dragState.pointIndex, route)
    /\ UNCHANGED <<frontVars, sessionVars, liveVars, lockHist, mapValue, lastSegmentCount,
                   lastWaypointCount, lastRouteRenderTime, ticks, dragState, poolOp,
                   behavior>>

\* the map's pointerup handler: endDrag commits through onMoveWaypoint,
\* removes the preview lines, resets dragState and enables the behavior
EndDrag(pt) ==
    /\ mapValue
    /\ IF ~ dragState.isDragging
       THEN /\ DragCall("none", -1, route)
            /\ UNCHANGED <<route, pool, dragState, behavior>>
       ELSE LET r == movePoint(route, dragState.pointIndex, pt.lat, pt.lon)
            IN /\ route' = r
               /\ DragCall("endDrag", dragState.pointIndex, r)
               /\ pool' = removeLine(removeLine(pool, mapValue, <<"drag-prev", 0>>),
                                     mapValue, <<"drag-next", 0>>)
               /\ dragState' = NoDrag
               /\ behavior' = enable(behavior)
    /\ last' = NoFileOp
    /\ UNCHANGED <<simState, mode, isMapReady, pendingRoute, savedDoc, savedFrom,
                   showClearConfirm, sessionVars, liveVars, lockHist, mapValue, lastSegmentCount,
                   lastWaypointCount, lastRouteRenderTime, ticks, poolOp>>

\* cancelDrag has no early return: it resets whether or not a drag is on
CancelDrag ==
    /\ mapValue
    /\ pool' = removeLine(removeLine(pool, mapValue, <<"drag-prev", 0>>),
                          mapValue, <<"drag-next", 0>>)
    /\ dragState' = NoDrag
    /\ behavior' = enable(behavior)
    /\ DragCall("cancelDrag", dragState.pointIndex, route)
    /\ UNCHANGED <<frontVars, sessionVars, liveVars, lockHist, mapValue, lastSegmentCount,
                   lastWaypointCount, lastRouteRenderTime, ticks, poolOp>>

\* where the pointer is while it drags and when it is released
DragTargets == { [lat |-> 2, lon |-> 0] }

NextEditor ==
    \/ MapCreated
    \/ \E p \in LivePositions : HandleMapClick(p)
    \/ \E m \in {"view", "add"} : OnModeChange(m)
    \/ \E idx \in PointIdx : OnSelectWaypoint(idx)
    \/ RunSim
    \/ StopSim
    \/ \E idx \in PointIdx : StartDrag(idx)
    \/ \E pt \in DragTargets : UpdateDrag(pt)
    \/ \E pt \in DragTargets : EndDrag(pt)
    \/ CancelDrag

SpecEditor == Init /\ [][NextEditor]_vars

\* C20: a drag starts only on a waypoint that is selected and not locked;
\* and the step that ends a drag leaves the coordinates of every waypoint
\* that is locked at that moment as they are, whatever run started or
\* stopped during the drag.
C20_DragRespectsLocks ==
    [][ /\ (~ dragState.isDragging /\ dragState'.isDragging) =>
              /\ dragState'.pointIndex \in PointIdx
              /\ At0(route.points, dragState'.pointIndex).isSelected
              /\ ~ isPointLocked(route, dragState'.pointIndex)
        /\ (dragState.isDragging /\ ~ dragState'.isDragging) =>
              \A idx \in PointIdx :
                  isPointLocked(route, idx) =>
                     /\ Len(route'.points) = Len(route.points)
                     /\ At0(route'.points, idx).lat = At0(route.points, idx).lat
                     /\ At0(route'.points, idx).lon = At0(route.points, idx).lon
      ]_vars

\* C20 witness: endDrag has committed on a waypoint that a run started
\* during the drag had locked, and the route stayed as it was
C20_Witness_LockedAtCommit ==
    /\ dragOp.op = "endDrag"
    /\ dragOp.locked
    /\ ~ dragOp.moved
    /\ ~ dragState.isDragging

DragLines == { <<"drag-prev", 0>>, <<"drag-next", 0>> }

\* C21: the map's behavior is disabled exactly while a drag is in progress,
\* and whenever no drag is in progress (after endDrag or cancelDrag, and
\* after any updateDrag that arrives later) dragState is reset - isDragging
\* false, pointIndex -1, startPosition null - and the pool holds no
\* 'drag-prev' or 'drag-next' line.
C21_PanningOffExactlyWhileDragging ==
    /\ mapValue => (behavior = "disabled" <=> dragState.isDragging)
    /\ ~ dragState.isDragging =>
          /\ dragState = NoDrag
          /\ \A id \in DragLines : ~ hasLine(pool, id) /\ id \notin pool.onMap

\* C21 witness: a drag was committed (a waypoint sits where the pointer was
\* released) and an updateDrag was called after it, with no drag on
C21_Witness_LateUpdateDrag ==
    /\ dragOp.op = "updateDrag"
    /\ dragOp.pointIndex = -1
    /\ ~ dragState.isDragging
    /\ behavior = "enabled"
    /\ \E i \in PointIdx, pt \in DragTargets :
          At0(route.points, i).lat = pt.lat /\ At0(route.points, i).lon = pt.lon

----------------------------------------------------------------------------
(* SpecLocks: the Route class between startSimulation and stopSimulation,   *)
(* with lockHist following the waypoints that bounded the range at the      *)
(* start through the index shifts of deletePoint and splitSegment           *)

Held(r) == { i \in 0 .. Len(r.points) - 1 : isPointLocked(r, i) }

heldRest == <<simState, mode, isMapReady, pendingRoute, savedDoc, savedFrom,
              showClearConfirm, sessionVars, liveVars, mapValue, pool, lastSegmentCount,
              lastWaypointCount, lastRouteRenderTime, ticks, dragState, poolOp, dragOp,
              behavior>>

ApplyHeld(r, held, broken) ==
    /\ route' = r
    /\ last' = NoFileOp
    /\ lockHist' = [held |-> held, broken |-> broken]

\* startSimulation on a range of existing segments, with no run in progress
HeldStartSimulation(startSegIdx, endSegIdx) ==
    /\ ~ route.simulatingSegmentRange.active
    /\ startSegIdx < Len(route.segments)
    /\ endSegIdx # <<>> => (startSegIdx <= endSegIdx[1] /\ endSegIdx[1] < Len(route.segments))
    /\ LET r == startSimulation(route, startSegIdx, endSegIdx)
       IN ApplyHeld(r, Held(r), FALSE)
    /\ UNCHANGED heldRest

HeldStopSimulation ==
    /\ route.simulatingSegmentRange.active
    /\ ApplyHeld(stopSimulation(route), {}, lockHist.broken)
    /\ UNCHANGED heldRest

\* addPoint pushes at the end: no waypoint changes its index
HeldAddPoint(p) ==
    /\ Len(route.points) < MaxPoints
    /\ ApplyHeld(addPoint(route, p.lat, p.lon), lockHist.held, lockHist.broken)
    /\ UNCHANGED heldRest

\* deletePoint: when it splices, the waypoints behind idx move down by one
HeldDeletePoint(idx) ==
    /\ LET r == deletePoint(route, idx)
       IN IF Len(r.points) = Len(route.points)
          THEN ApplyHeld(r, lockHist.held, lockHist.broken)
          ELSE ApplyHeld(r, { IF i > idx THEN i - 1 ELSE i : i \in lockHist.held \ {idx} },
                         lockHist.broken \/ idx \in lockHist.held)
    /\ UNCHANGED heldRest

HeldMovePoint(idx, p) ==
    /\ LET r == movePoint(route, idx, p.lat, p.lon)
       IN ApplyHeld(r, lockHist.held,
                    lockHist.broken
                      \/ (idx \in lockHist.held /\ Coords(r.points) # Coords(route.points)))
    /\ UNCHANGED heldRest

\* splitSegment: when it inserts, the waypoints behind idx move up by one
HeldSplitSegment(idx) ==
    /\ CanSplitInBounds(route, idx)
    /\ LET res == splitSegment(route, idx)
       IN IF res.ret
          THEN ApplyHeld(res.route, { IF i > idx THEN i + 1 ELSE i : i \in lockHist.held },
                         lockHist.broken)
          ELSE ApplyHeld(res.route, lockHist.held, lockHist.broken)
    /\ UNCHANGED heldRest

NextLocks ==
    \/ \E s \in StartArgs, e \in EndArgs : HeldStartSimulation(s, e)
    \/ HeldStopSimulation
    \/ \E p \in Positions : HeldAddPoint(p)
    \/ \E idx \in IdxArgs : HeldDeletePoint(idx)
    \/ \E idx \in IdxArgs, p \in Positions : HeldMovePoint(idx, p)
    \/ \E idx \in IdxArgs : HeldSplitSegment(idx)

SpecLocks == Init /\ [][NextLocks]_vars

\* C22: from startSimulation(s, e) until stopSimulation, no addPoint,
\* deletePoint, movePoint or splitSegment removes or moves a waypoint that
\* bounded a segment of [s, e] when the simulation started.
C22_BoundingWaypointsKept ==
    route.simulatingSegmentRange.active => ~ lockHist.broken

----------------------------------------------------------------------------
(* SpecApp, continued *)

\* C23: whenever simState is 'running' the route shown has its simulation
\* range set; no handler available during a run (load of a route file, clear,
\* key presses) leaves simState 'running' with an unlocked route.
C23_RunningRouteIsLocked ==
    simState = "running" => route.simulatingSegmentRange.active

----------------------------------------------------------------------------
(* Spec, continued: the selection *)

SelectedPoints(r) == { i \in 0 .. Len(r.points) - 1 : At0(r.points, i).isSelected }
SelectedSegments(r) == { i \in 0 .. Len(r.segments) - 1 : At0(r.segments, i).isSelected }

\* C24: selectedType agrees with the selection: POINT exactly when some
\* point is selected, SEGMENT exactly when some segment is selected, null
\* exactly when nothing is selected.
C24_SelectedTypeAgrees ==
    /\ route.selectedType = SelectionType.POINT <=> SelectedPoints(route) # {}
    /\ route.selectedType = SelectionType.SEGMENT <=> SelectedSegments(route) # {}
    /\ route.selectedType = NullSelection <=>
          (SelectedPoints(route) = {} /\ SelectedSegments(route) = {})

\* C25: at most one element is selected: the points with isSelected and the
\* segments with isSelected are at most one together.
C25_AtMostOneSelected ==
    Cardinality(SelectedPoints(route)) + Cardinality(SelectedSegments(route)) <= 1

\* C25 witness: a route at its full length that went through a split - its
\* second waypoint is the midpoint that splitSegment(0) made - with the last
\* segment selected and no point selected
C25_Witness_SelectionAfterSplit ==
    /\ Len(route.points) = MaxPoints
    /\ At0(route.points, 1).lat = 1
    /\ At0(route.points, 1).lon = 1
    /\ SelectedSegments(route) = { Len(route.segments) - 1 }
    /\ SelectedPoints(route) = {}

====
